---- MODULE Spec2Model ----
(***************************************************************************)
(* BlenRose material editor (src/BlenRose.py): the synchronizer between a  *)
(* material's settings record and its shading graph, the channel           *)
(* auto-detector, and the reactive passes that drive them.                 *)
(*                                                                         *)
(* Floats are kept in hundredths (0.02 is 2, 8.0 is 800).  Python's None   *)
(* and the empty string are both falsy for every reader in the source, so  *)
(* a missing name is "" and a missing image is NoImage.  A node's name is  *)
(* its identity: the host keeps node names unique within one tree.         *)
(***************************************************************************)
EXTENDS Integers, Sequences, FiniteSets, TLC

(* ------------------------------ bounds --------------------------------- *)

\* user/environment operations explored from the initial state
MaxSteps == 3

\* refused re-entrant invocations of the periodic hook that are counted
MaxRefused == 1

\* largest coordinate of the boxes and points the geometry helpers are called with
MaxCoord == 2

\* longest chain of nodes upstream of the image node in the traced graphs
MaxChain == 10

(* --------------------------- static tables ----------------------------- *)

\* the elements of a table given as a sequence
Range0(seq) == {seq[i] : i \in DOMAIN seq}

Mats == {1, 2}

\* bpy.data.materials iteration order
MatOrder == <<1, 2>>

NoImage == 0

\* image datablocks of the file
Images == {1, 2}

Channels ==
    {"diffuse", "lightmap", "specular", "normal", "detail", "macro_overlay",
     "environment", "decal", "transparent", "noise"}

\* channel -> managed image-sample node (texture_mappings)
TextureMappings ==
    << <<"BR_DiffuseTex", "diffuse">>, <<"BR_LightmapTex", "lightmap">>,
       <<"BR_SpecularTex", "specular">>, <<"BR_NormalTex", "normal">>,
       <<"BR_DetailTex", "detail">>, <<"BR_MacroOverlayTex", "macro_overlay">>,
       <<"BR_EnvironmentTex", "environment">>, <<"BR_DecalTex", "decal">>,
       <<"BR_TransparentTex", "transparent">>, <<"BR_NoiseTex", "noise">> >>

\* channel -> managed UV-source node (uv_mappings)
UvMappings ==
    << <<"BR_DiffuseUV", "diffuse">>, <<"BR_LightmapUV", "lightmap">>,
       <<"BR_SpecularUV", "specular">>, <<"BR_NormalUV", "normal">>,
       <<"BR_DetailUV", "detail">>, <<"BR_MacroOverlayUV", "macro_overlay">>,
       <<"BR_EnvironmentUV", "environment">>, <<"BR_DecalUV", "decal">>,
       <<"BR_TransparentUV", "transparent">>, <<"BR_NoiseUV", "noise">> >>

CriticalNodes == <<"BR_BSDF", "BR_MixShader", "BR_Emission">>

\* (channel_name, detection_keywords, connection_targets), in table order
ChannelDetection ==
    << [channel |-> "diffuse", keywords |-> <<"diffuse", "base", "color", "albedo">>,
        targets |-> <<"Base Color", "Color">>],
       [channel |-> "specular", keywords |-> <<"specular", "spec">>,
        targets |-> <<"Specular", "Specular IOR Level", "Specular Tint">>],
       [channel |-> "normal", keywords |-> <<"normal", "norm", "nrm">>,
        targets |-> <<"Normal">>],
       [channel |-> "lightmap", keywords |-> <<"lightmap", "light", "lm", "emission">>,
        targets |-> <<"Emission", "Color">>],
       [channel |-> "detail", keywords |-> <<"detail", "det">>, targets |-> <<>>],
       [channel |-> "macro_overlay", keywords |-> <<"macro", "overlay">>, targets |-> <<>>],
       [channel |-> "environment", keywords |-> <<"environment", "env", "reflection">>,
        targets |-> <<>>],
       [channel |-> "decal", keywords |-> <<"decal">>, targets |-> <<>>],
       [channel |-> "transparent", keywords |-> <<"transparent", "alpha">>,
        targets |-> <<"Alpha">>],
       [channel |-> "noise", keywords |-> <<"noise">>, targets |-> <<>>] >>

\* fixed mixer blend factor 0.02, as the rebuild sets it
BuildMixFac == 2

\* fixed mixer blend factor 0.02, as the targeted patch re-enforces it
PatchMixFac == 2

\* fixed 50% blend of the detail normal over the base normal
NormalMixFac == 50

\* property defaults (hundredths)
DefaultDetailScale == 800

DefaultMacroOpacity == 100

DefaultMacroScale == 30

DefaultEmbeddedDecal == 100

\* MATERIAL_CLASS_ITEMS: three of the 27 classes, in table order
MaterialClassItems == <<"BASIC", "ENVIRONMENT", "ENVIRONMENTPARK">>

\* MATERIAL_SUBCLASSES: the identifiers of each class's table, in table order
MaterialSubclasses ==
    [c \in Range0(MaterialClassItems) |->
        CASE c = "BASIC" -> <<"DEFAULT">>
          [] c = "ENVIRONMENT" ->
                 <<"DECAL_SIMPLE", "DECAL_TILEABLE_SIMPLE", "DECAL_TILEABLE", "DECAL",
                   "DECAL2", "DEFAULT", "REFLECTIVE_SIMPLE", "REFLECTIVE_TRANS",
                   "REFLECTIVE", "TRANSPARENT">>
          [] OTHER -> <<"ALPHATEST", "DECAL", "DIFFUSE">>]

MaterialSubclassFallback == <<"DEFAULT">>

\* default of material_class, and the default enum index of material_subclass
DefaultMaterialClass == "ENVIRONMENT"

DefaultSubclassIndex == 0

\* default enum indices of the UV properties (0-based, as the host stores them)
DefaultUvIndex == [c \in Channels |-> IF c = "lightmap" THEN 1 ELSE 0]

(* ------------------------------ strings -------------------------------- *)

\* the characters of every string the detector and the serializer inspect
Chars ==
          "BR_BSDF" :> <<"B", "R", "_", "B", "S", "D", "F">>
       @@ "BR_MixShader" :> <<"B", "R", "_", "M", "i", "x", "S", "h", "a", "d", "e", "r">>
       @@ "BR_Emission" :> <<"B", "R", "_", "E", "m", "i", "s", "s", "i", "o", "n">>
       @@ "BR_DiffuseUV" :> <<"B", "R", "_", "D", "i", "f", "f", "u", "s", "e", "U", "V">>
       @@ "BR_DiffuseTex" :> <<"B", "R", "_", "D", "i", "f", "f", "u", "s", "e", "T", "e", "x">>
       @@ "DiffuseTexture" :> <<"D", "i", "f", "f", "u", "s", "e", "T", "e", "x", "t", "u", "r", "e">>
       @@ "BR_NormalUV" :> <<"B", "R", "_", "N", "o", "r", "m", "a", "l", "U", "V">>
       @@ "BR_NormalTex" :> <<"B", "R", "_", "N", "o", "r", "m", "a", "l", "T", "e", "x">>
       @@ "NormalTexture" :> <<"N", "o", "r", "m", "a", "l", "T", "e", "x", "t", "u", "r", "e">>
       @@ "BR_NormalMap" :> <<"B", "R", "_", "N", "o", "r", "m", "a", "l", "M", "a", "p">>
       @@ "BR_SpecularUV" :> <<"B", "R", "_", "S", "p", "e", "c", "u", "l", "a", "r", "U", "V">>
       @@ "BR_SpecularTex" :> <<"B", "R", "_", "S", "p", "e", "c", "u", "l", "a", "r", "T", "e", "x">>
       @@ "SpecularTexture" :> <<"S", "p", "e", "c", "u", "l", "a", "r", "T", "e", "x", "t", "u", "r", "e">>
       @@ "Specular Extract" :> <<"S", "p", "e", "c", "u", "l", "a", "r", " ", "E", "x", "t", "r", "a", "c", "t">>
       @@ "BR_LightmapUV" :> <<"B", "R", "_", "L", "i", "g", "h", "t", "m", "a", "p", "U", "V">>
       @@ "BR_LightmapTex" :> <<"B", "R", "_", "L", "i", "g", "h", "t", "m", "a", "p", "T", "e", "x">>
       @@ "LightMapTexture" :> <<"L", "i", "g", "h", "t", "M", "a", "p", "T", "e", "x", "t", "u", "r", "e">>
       @@ "BR_DetailUV" :> <<"B", "R", "_", "D", "e", "t", "a", "i", "l", "U", "V">>
       @@ "BR_DetailMapping" :> <<"B", "R", "_", "D", "e", "t", "a", "i", "l", "M", "a", "p", "p", "i", "n", "g">>
       @@ "BR_DetailTex" :> <<"B", "R", "_", "D", "e", "t", "a", "i", "l", "T", "e", "x">>
       @@ "DetailTexture" :> <<"D", "e", "t", "a", "i", "l", "T", "e", "x", "t", "u", "r", "e">>
       @@ "Detail Normal Map" :> <<"D", "e", "t", "a", "i", "l", " ", "N", "o", "r", "m", "a", "l", " ", "M", "a", "p">>
       @@ "BR_NormalMix" :> <<"B", "R", "_", "N", "o", "r", "m", "a", "l", "M", "i", "x">>
       @@ "BR_MacroOverlayUV" :> <<"B", "R", "_", "M", "a", "c", "r", "o", "O", "v", "e", "r", "l", "a", "y", "U", "V">>
       @@ "BR_MacroMapping" :> <<"B", "R", "_", "M", "a", "c", "r", "o", "M", "a", "p", "p", "i", "n", "g">>
       @@ "BR_MacroOverlayTex" :> <<"B", "R", "_", "M", "a", "c", "r", "o", "O", "v", "e", "r", "l", "a", "y", "T", "e", "x">>
       @@ "MacroOverlayTexture" :> <<"M", "a", "c", "r", "o", "O", "v", "e", "r", "l", "a", "y", "T", "e", "x", "t", "u", "r", "e">>
       @@ "BR_MacroMix" :> <<"B", "R", "_", "M", "a", "c", "r", "o", "M", "i", "x">>
       @@ "Material Output" :> <<"M", "a", "t", "e", "r", "i", "a", "l", " ", "O", "u", "t", "p", "u", "t">>
       @@ "Principled BSDF" :> <<"P", "r", "i", "n", "c", "i", "p", "l", "e", "d", " ", "B", "S", "D", "F">>
       @@ "Separate RGB" :> <<"S", "e", "p", "a", "r", "a", "t", "e", " ", "R", "G", "B">>
       @@ "Normal Map" :> <<"N", "o", "r", "m", "a", "l", " ", "M", "a", "p">>
       @@ "Image Texture" :> <<"I", "m", "a", "g", "e", " ", "T", "e", "x", "t", "u", "r", "e">>
       @@ "UV Map" :> <<"U", "V", " ", "M", "a", "p">>
       @@ "Texture Coordinate" :> <<"T", "e", "x", "t", "u", "r", "e", " ", "C", "o", "o", "r", "d", "i", "n", "a", "t", "e">>
       @@ "Attribute" :> <<"A", "t", "t", "r", "i", "b", "u", "t", "e">>
       @@ "Emission" :> <<"E", "m", "i", "s", "s", "i", "o", "n">>
       @@ "Mapping" :> <<"M", "a", "p", "p", "i", "n", "g">>
       @@ "Diffuse_Color" :> <<"D", "i", "f", "f", "u", "s", "e", "_", "C", "o", "l", "o", "r">>
       @@ "LM_Bake" :> <<"L", "M", "_", "B", "a", "k", "e">>
       @@ "Noise_Mask" :> <<"N", "o", "i", "s", "e", "_", "M", "a", "s", "k">>
       @@ "Plain" :> <<"P", "l", "a", "i", "n">>
       @@ "Base Color" :> <<"B", "a", "s", "e", " ", "C", "o", "l", "o", "r">>
       @@ "Color" :> <<"C", "o", "l", "o", "r">>
       @@ "Color1" :> <<"C", "o", "l", "o", "r", "1">>
       @@ "Color2" :> <<"C", "o", "l", "o", "r", "2">>
       @@ "Specular" :> <<"S", "p", "e", "c", "u", "l", "a", "r">>
       @@ "Specular Tint" :> <<"S", "p", "e", "c", "u", "l", "a", "r", " ", "T", "i", "n", "t">>
       @@ "Specular IOR Level" :> <<"S", "p", "e", "c", "u", "l", "a", "r", " ", "I", "O", "R", " ", "L", "e", "v", "e", "l">>
       @@ "Normal" :> <<"N", "o", "r", "m", "a", "l">>
       @@ "Alpha" :> <<"A", "l", "p", "h", "a">>
       @@ "Vector" :> <<"V", "e", "c", "t", "o", "r">>
       @@ "UV" :> <<"U", "V">>
       @@ "Fac" :> <<"F", "a", "c">>
       @@ "Shader" :> <<"S", "h", "a", "d", "e", "r">>
       @@ "Shader_001" :> <<"S", "h", "a", "d", "e", "r", "_", "0", "0", "1">>
       @@ "Surface" :> <<"S", "u", "r", "f", "a", "c", "e">>
       @@ "Image" :> <<"I", "m", "a", "g", "e">>
       @@ "R" :> <<"R">>
       @@ "BSDF" :> <<"B", "S", "D", "F">>
       @@ "Strength" :> <<"S", "t", "r", "e", "n", "g", "t", "h">>
       @@ "Scale" :> <<"S", "c", "a", "l", "e">>
       @@ "Location" :> <<"L", "o", "c", "a", "t", "i", "o", "n">>
       @@ "Rotation" :> <<"R", "o", "t", "a", "t", "i", "o", "n">>
       @@ "Generated" :> <<"G", "e", "n", "e", "r", "a", "t", "e", "d">>
       @@ "Object" :> <<"O", "b", "j", "e", "c", "t">>
       @@ "Volume" :> <<"V", "o", "l", "u", "m", "e">>
       @@ "Displacement" :> <<"D", "i", "s", "p", "l", "a", "c", "e", "m", "e", "n", "t">>
       @@ "G" :> <<"G">>
       @@ "B" :> <<"B">>
       @@ "diffuse" :> <<"d", "i", "f", "f", "u", "s", "e">>
       @@ "base" :> <<"b", "a", "s", "e">>
       @@ "color" :> <<"c", "o", "l", "o", "r">>
       @@ "albedo" :> <<"a", "l", "b", "e", "d", "o">>
       @@ "specular" :> <<"s", "p", "e", "c", "u", "l", "a", "r">>
       @@ "spec" :> <<"s", "p", "e", "c">>
       @@ "normal" :> <<"n", "o", "r", "m", "a", "l">>
       @@ "norm" :> <<"n", "o", "r", "m">>
       @@ "nrm" :> <<"n", "r", "m">>
       @@ "lightmap" :> <<"l", "i", "g", "h", "t", "m", "a", "p">>
       @@ "light" :> <<"l", "i", "g", "h", "t">>
       @@ "lm" :> <<"l", "m">>
       @@ "emission" :> <<"e", "m", "i", "s", "s", "i", "o", "n">>
       @@ "detail" :> <<"d", "e", "t", "a", "i", "l">>
       @@ "det" :> <<"d", "e", "t">>
       @@ "macro" :> <<"m", "a", "c", "r", "o">>
       @@ "overlay" :> <<"o", "v", "e", "r", "l", "a", "y">>
       @@ "environment" :> <<"e", "n", "v", "i", "r", "o", "n", "m", "e", "n", "t">>
       @@ "env" :> <<"e", "n", "v">>
       @@ "reflection" :> <<"r", "e", "f", "l", "e", "c", "t", "i", "o", "n">>
       @@ "decal" :> <<"d", "e", "c", "a", "l">>
       @@ "transparent" :> <<"t", "r", "a", "n", "s", "p", "a", "r", "e", "n", "t">>
       @@ "alpha" :> <<"a", "l", "p", "h", "a">>
       @@ "noise" :> <<"n", "o", "i", "s", "e">>
       @@ "BR_" :> <<"B", "R", "_">>
       @@ "BASIC" :> <<"B", "A", "S", "I", "C">>
       @@ "ENVIRONMENT" :> <<"E", "N", "V", "I", "R", "O", "N", "M", "E", "N", "T">>
       @@ "ENVIRONMENTPARK" :> <<"E", "N", "V", "I", "R", "O", "N", "M", "E", "N", "T", "P", "A", "R", "K">>
       @@ "DEFAULT" :> <<"D", "E", "F", "A", "U", "L", "T">>
       @@ "DECAL_SIMPLE" :> <<"D", "E", "C", "A", "L", "_", "S", "I", "M", "P", "L", "E">>
       @@ "DECAL_TILEABLE_SIMPLE" :> <<"D", "E", "C", "A", "L", "_", "T", "I", "L", "E", "A", "B", "L", "E", "_", "S", "I", "M", "P", "L", "E">>
       @@ "DECAL_TILEABLE" :> <<"D", "E", "C", "A", "L", "_", "T", "I", "L", "E", "A", "B", "L", "E">>
       @@ "DECAL" :> <<"D", "E", "C", "A", "L">>
       @@ "DECAL2" :> <<"D", "E", "C", "A", "L", "2">>
       @@ "REFLECTIVE_SIMPLE" :> <<"R", "E", "F", "L", "E", "C", "T", "I", "V", "E", "_", "S", "I", "M", "P", "L", "E">>
       @@ "REFLECTIVE_TRANS" :> <<"R", "E", "F", "L", "E", "C", "T", "I", "V", "E", "_", "T", "R", "A", "N", "S">>
       @@ "REFLECTIVE" :> <<"R", "E", "F", "L", "E", "C", "T", "I", "V", "E">>
       @@ "TRANSPARENT" :> <<"T", "R", "A", "N", "S", "P", "A", "R", "E", "N", "T">>
       @@ "ALPHATEST" :> <<"A", "L", "P", "H", "A", "T", "E", "S", "T">>
       @@ "DIFFUSE" :> <<"D", "I", "F", "F", "U", "S", "E">>
       @@ "Decal_Noise" :> <<"D", "e", "c", "a", "l", "_", "N", "o", "i", "s", "e">>
       @@ "default" :> <<"d", "e", "f", "a", "u", "l", "t">>
       @@ "." :> <<".">>
       @@ "_" :> <<"_">>
       @@ ".glb" :> <<".", "g", "l", "b">>
       @@ "NO_MATERIAL" :> <<"N", "O", "_", "M", "A", "T", "E", "R", "I", "A", "L">>
       @@ "Wall A" :> <<"W", "a", "l", "l", " ", "A">>
       @@ "Wall.A" :> <<"W", "a", "l", "l", ".", "A">>
       @@ "" :> <<>>

\* str.lower() on one character
LowerChar ==
          "A" :> "a"
       @@ "B" :> "b"
       @@ "C" :> "c"
       @@ "D" :> "d"
       @@ "E" :> "e"
       @@ "F" :> "f"
       @@ "G" :> "g"
       @@ "H" :> "h"
       @@ "I" :> "i"
       @@ "J" :> "j"
       @@ "K" :> "k"
       @@ "L" :> "l"
       @@ "M" :> "m"
       @@ "N" :> "n"
       @@ "O" :> "o"
       @@ "P" :> "p"
       @@ "Q" :> "q"
       @@ "R" :> "r"
       @@ "S" :> "s"
       @@ "T" :> "t"
       @@ "U" :> "u"
       @@ "V" :> "v"
       @@ "W" :> "w"
       @@ "X" :> "x"
       @@ "Y" :> "y"
       @@ "Z" :> "z"

Lower(cs) ==
    [i \in DOMAIN cs |-> IF cs[i] \in DOMAIN LowerChar THEN LowerChar[cs[i]] ELSE cs[i]]

\* Python's `needle in hay` on character sequences
Contains(hay, needle) ==
    \E i \in 1..(Len(hay) - Len(needle) + 1) :
        \A j \in 1..Len(needle) : hay[i + j - 1] = needle[j]

\* str.startswith
StartsWith(s, prefix) ==
    /\ Len(Chars[prefix]) <= Len(Chars[s])
    /\ \A j \in 1..Len(Chars[prefix]) : Chars[s][j] = Chars[prefix][j]

IsManagedName(name) == StartsWith(name, "BR_")

(* ------------------------- shading graph (host) ------------------------ *)

\* a freshly created node of the given type
Node(name, type, label) ==
    [name |-> name, type |-> type, label |-> label, image |-> NoImage,
     uv_map |-> "", attribute_name |-> "", val |-> 0]

Link(fromNode, fromSocket, toNode, toSocket) ==
    [from_node |-> fromNode, from_socket |-> fromSocket,
     to_node |-> toNode, to_socket |-> toSocket]

\* input sockets of each node kind, in socket order (Blender 3.x)
InputsOf(type) ==
    CASE type = "OUTPUT_MATERIAL" -> <<"Surface", "Volume", "Displacement">>
      [] type = "BSDF_PRINCIPLED" ->
             <<"Base Color", "Specular", "Specular Tint", "Alpha", "Normal">>
      [] type = "BSDF_DIFFUSE" -> <<"Color", "Normal">>
      [] type = "MIX_SHADER" -> <<"Fac", "Shader", "Shader_001">>
      [] type = "EMISSION" -> <<"Color", "Strength">>
      [] type = "TEX_IMAGE" -> <<"Vector">>
      [] type = "NORMAL_MAP" -> <<"Strength", "Color">>
      [] type = "SEPRGB" -> <<"Image">>
      [] type = "MAPPING" -> <<"Vector", "Location", "Rotation", "Scale">>
      [] type = "MIX_RGB" -> <<"Fac", "Color1", "Color2">>
      [] OTHER -> <<>>

Range(seq) == {seq[i] : i \in DOMAIN seq}

NodeNames(nodes) == {nodes[i].name : i \in DOMAIN nodes}

\* nt.nodes.get(name) is truthy
HasNode(nodes, name) == \E i \in DOMAIN nodes : nodes[i].name = name

\* nt.nodes.get(name), for a name that is present
GetNode(nodes, name) ==
    nodes[CHOOSE i \in DOMAIN nodes :
              /\ nodes[i].name = name
              /\ \A j \in 1..(i - 1) : nodes[j].name # name]

\* material without a node tree
NoTree == [use_nodes |-> FALSE, has_tree |-> FALSE, nodes |-> <<>>, links |-> {}]

\* the tree the host creates when use_nodes is first switched on
DefaultTree ==
    [use_nodes |-> TRUE, has_tree |-> TRUE,
     nodes |-> << Node("Principled BSDF", "BSDF_PRINCIPLED", ""),
                  Node("Material Output", "OUTPUT_MATERIAL", "") >>,
     links |-> {Link("Principled BSDF", "BSDF", "Material Output", "Surface")}]

\* mat.use_nodes = True
UseNodes(g) ==
    IF g.has_tree THEN [g EXCEPT !.use_nodes = TRUE] ELSE DefaultTree

\* nt.links.new: an input socket carries one link, the new one replaces it
LinkNew(links, l) ==
    {k \in links : ~(k.to_node = l.to_node /\ k.to_socket = l.to_socket)} \cup {l}

RECURSIVE LinkAll(_, _)
LinkAll(links, ls) ==
    IF ls = <<>> THEN links ELSE LinkAll(LinkNew(links, Head(ls)), Tail(ls))

\* nt.nodes.remove for every node whose name is in `names`; the host drops
\* the links of a removed node
RemoveNodes(g, names) ==
    [g EXCEPT !.nodes = SelectSeq(g.nodes, LAMBDA n : n.name \notin names),
              !.links = {k \in g.links :
                            k.from_node \notin names /\ k.to_node \notin names}]

\* socket.is_linked for an input socket
IsLinked(links, node, socket) ==
    \E k \in links : k.to_node = node /\ k.to_socket = socket

(* ------------------------------ settings ------------------------------- *)

DefaultSettings ==
    [enabled |-> FALSE,
     tex |-> [c \in Channels |-> NoImage],
     uv |-> DefaultUvIndex,
     detail_normal_uv_scale |-> DefaultDetailScale,
     macro_overlay_opacity |-> DefaultMacroOpacity,
     macro_overlay_uv_scale |-> DefaultMacroScale,
     embedded_decal |-> DefaultEmbeddedDecal,
     material_class |-> DefaultMaterialClass,
     material_subclass |-> DefaultSubclassIndex]

\* material_subclass_items: the enum items of material_subclass for record s
MaterialSubclassItems(s) ==
    IF s.material_class # "" /\ s.material_class \in DOMAIN MaterialSubclasses
    THEN MaterialSubclasses[s.material_class]
    ELSE MaterialSubclassFallback

\* 0-based position of an identifier in an items list, -1 if absent
ItemIndex(items, identifier) ==
    IF \E i \in DOMAIN items : items[i] = identifier
    THEN (CHOOSE i \in DOMAIN items : items[i] = identifier) - 1
    ELSE -1

\* settings.material_subclass as read: the identifier at the stored index of
\* the current items, "" when the index matches no item
SubclassRead(s) ==
    LET items == MaterialSubclassItems(s)
    IN  IF s.material_subclass + 1 \in DOMAIN items
        THEN items[s.material_subclass + 1] ELSE ""

\* getattr(settings, "<channel>_uv"): the identifier at the stored index of
\* the enum's current items, "" when the index is past the items
UvName(s, c, items) ==
    IF s.uv[c] + 1 \in DOMAIN items THEN items[s.uv[c] + 1] ELSE ""

(* ------------------------------ rebuild -------------------------------- *)

\* for node in list(nt.nodes): nt.nodes.remove(node)
ClearNodes(g) == [g EXCEPT !.nodes = <<>>, !.links = {}]

UvNode(name, s, c, items) ==
    [Node(name, "UVMAP", "") EXCEPT !.uv_map = UvName(s, c, items)]

\* the image assignment is skipped
TexNodeNoImage(name, label, s, c) == Node(name, "TEX_IMAGE", label)

\* an Image Texture node created by the rebuild, holding the channel's texture
TexNode(name, label, s, c) ==
    [Node(name, "TEX_IMAGE", label) EXCEPT !.image = s.tex[c]]

\* the surface shader's specular input, probed in priority order; "" if none
SpecularInput ==
    LET ins == Range(InputsOf("BSDF_PRINCIPLED")) IN
    IF "Specular" \in ins THEN "Specular"
    ELSE IF "Specular IOR Level" \in ins THEN "Specular IOR Level"
    ELSE IF "Specular Tint" \in ins THEN "Specular Tint"
    ELSE ""

BuildNodesBase(s, items) ==
    << Node("Material Output", "OUTPUT_MATERIAL", ""),
       Node("BR_BSDF", "BSDF_PRINCIPLED", ""),
       [Node("BR_MixShader", "MIX_SHADER", "") EXCEPT !.val = BuildMixFac],
       Node("BR_Emission", "EMISSION", ""),
       UvNode("BR_DiffuseUV", s, "diffuse", items),
       TexNode("BR_DiffuseTex", "DiffuseTexture", s, "diffuse"),
       UvNode("BR_NormalUV", s, "normal", items),
       TexNode("BR_NormalTex", "NormalTexture", s, "normal"),
       Node("BR_NormalMap", "NORMAL_MAP", ""),
       UvNode("BR_SpecularUV", s, "specular", items),
       TexNode("BR_SpecularTex", "SpecularTexture", s, "specular") >>
    \o (IF SpecularInput # ""
        THEN << Node("Separate RGB", "SEPRGB", "Specular Extract") >> ELSE <<>>)
    \o << UvNode("BR_LightmapUV", s, "lightmap", items),
          TexNode("BR_LightmapTex", "LightMapTexture", s, "lightmap") >>

BuildNodesDetail(s, items) ==
    IF s.tex["detail"] = NoImage THEN <<>>
    ELSE << UvNode("BR_DetailUV", s, "detail", items),
            [Node("BR_DetailMapping", "MAPPING", "")
                 EXCEPT !.val = s.detail_normal_uv_scale],
            TexNode("BR_DetailTex", "DetailTexture", s, "detail"),
            Node("Normal Map", "NORMAL_MAP", "Detail Normal Map"),
            [Node("BR_NormalMix", "MIX_RGB", "") EXCEPT !.val = NormalMixFac] >>

BuildNodesMacro(s, items) ==
    IF s.tex["macro_overlay"] = NoImage THEN <<>>
    ELSE << UvNode("BR_MacroOverlayUV", s, "macro_overlay", items),
            [Node("BR_MacroMapping", "MAPPING", "")
                 EXCEPT !.val = s.macro_overlay_uv_scale],
            TexNode("BR_MacroOverlayTex", "MacroOverlayTexture", s, "macro_overlay"),
            [Node("BR_MacroMix", "MIX_RGB", "")
                 EXCEPT !.val = s.macro_overlay_opacity] >>

BuildLinksBase ==
    << Link("BR_DiffuseUV", "UV", "BR_DiffuseTex", "Vector"),
       Link("BR_NormalUV", "UV", "BR_NormalTex", "Vector"),
       Link("BR_NormalTex", "Color", "BR_NormalMap", "Color"),
       Link("BR_SpecularUV", "UV", "BR_SpecularTex", "Vector") >>
    \o (IF SpecularInput # ""
        THEN << Link("BR_SpecularTex", "Color", "Separate RGB", "Image"),
                Link("Separate RGB", "R", "BR_BSDF", SpecularInput) >>
        ELSE <<>>)

\* the rebuild drops the lightmap -> emission link
BuildLinksLightmapNoEmission ==
    << Link("BR_LightmapUV", "UV", "BR_LightmapTex", "Vector"),
       Link("BR_Emission", "Emission", "BR_MixShader", "Shader_001") >>

BuildLinksLightmap ==
    << Link("BR_LightmapUV", "UV", "BR_LightmapTex", "Vector"),
       Link("BR_LightmapTex", "Color", "BR_Emission", "Color"),
       Link("BR_Emission", "Emission", "BR_MixShader", "Shader_001") >>

BuildLinksNormal(s) ==
    IF s.tex["detail"] = NoImage
    THEN << Link("BR_NormalMap", "Normal", "BR_BSDF", "Normal") >>
    ELSE << Link("BR_DetailUV", "UV", "BR_DetailMapping", "Vector"),
            Link("BR_DetailMapping", "Vector", "BR_DetailTex", "Vector"),
            Link("BR_DetailTex", "Color", "Normal Map", "Color"),
            Link("BR_NormalMap", "Normal", "BR_NormalMix", "Color1"),
            Link("Normal Map", "Normal", "BR_NormalMix", "Color2"),
            Link("BR_NormalMix", "Color", "BR_BSDF", "Normal") >>

BuildLinksColor(s) ==
    IF s.tex["macro_overlay"] = NoImage
    THEN << Link("BR_DiffuseTex", "Color", "BR_BSDF", "Base Color") >>
    ELSE << Link("BR_MacroOverlayUV", "UV", "BR_MacroMapping", "Vector"),
            Link("BR_MacroMapping", "Vector", "BR_MacroOverlayTex", "Vector"),
            Link("BR_DiffuseTex", "Color", "BR_MacroMix", "Color1"),
            Link("BR_MacroOverlayTex", "Color", "BR_MacroMix", "Color2"),
            Link("BR_MacroMix", "Color", "BR_BSDF", "Base Color") >>

BuildLinksOutput ==
    << Link("BR_BSDF", "BSDF", "BR_MixShader", "Shader"),
       Link("BR_MixShader", "Shader", "Material Output", "Surface") >>

\* _build_blenrose_node_tree(mat)
BuildTree(s, g, items) ==
    LET g0 == ClearNodes(UseNodes(g))
        created == BuildNodesBase(s, items) \o BuildNodesDetail(s, items)
                       \o BuildNodesMacro(s, items)
        made == BuildLinksBase \o BuildLinksLightmap \o BuildLinksNormal(s)
                    \o BuildLinksColor(s) \o BuildLinksOutput
    IN  [g0 EXCEPT !.nodes = g0.nodes \o created,
                   !.links = LinkAll(g0.links, made)]

(* --------------------------- targeted patch ---------------------------- *)

\* the name lookup is skipped: every image node takes the diffuse texture
PatchTexturesAnyImageNode(s, nodes) ==
    [i \in DOMAIN nodes |->
        IF nodes[i].type = "TEX_IMAGE"
        THEN [nodes[i] EXCEPT !.image = s.tex["diffuse"]]
        ELSE nodes[i]]

\* tex_node.image = getattr(self, prop_name) for every managed image node
PatchTextures(s, nodes) ==
    [i \in DOMAIN nodes |->
        IF /\ \E k \in DOMAIN TextureMappings : TextureMappings[k][1] = nodes[i].name
           /\ nodes[i].type = "TEX_IMAGE"
        THEN LET k == CHOOSE k \in DOMAIN TextureMappings :
                          TextureMappings[k][1] = nodes[i].name
             IN  [nodes[i] EXCEPT !.image = s.tex[TextureMappings[k][2]]]
        ELSE nodes[i]]

\* uv_node.uv_map = uv_name for every managed UV node, when the name is truthy
PatchUvs(s, nodes, items) ==
    [i \in DOMAIN nodes |->
        IF /\ \E k \in DOMAIN UvMappings : UvMappings[k][1] = nodes[i].name
           /\ nodes[i].type = "UVMAP"
        THEN LET k == CHOOSE k \in DOMAIN UvMappings : UvMappings[k][1] = nodes[i].name
                 uv_name == UvName(s, UvMappings[k][2], items)
             IN  IF uv_name # "" THEN [nodes[i] EXCEPT !.uv_map = uv_name] ELSE nodes[i]
        ELSE nodes[i]]

\* the three scalar inputs and the mixer's blend factor
PatchScalars(s, nodes, links) ==
    [i \in DOMAIN nodes |->
        CASE nodes[i].name = "BR_DetailMapping" ->
                 [nodes[i] EXCEPT !.val = s.detail_normal_uv_scale]
          [] nodes[i].name = "BR_MacroMapping" ->
                 [nodes[i] EXCEPT !.val = s.macro_overlay_uv_scale]
          [] nodes[i].name = "BR_MacroMix" ->
                 [nodes[i] EXCEPT !.val = s.macro_overlay_opacity]
          [] nodes[i].name = "BR_MixShader" /\ ~IsLinked(links, "BR_MixShader", "Fac") ->
                 [nodes[i] EXCEPT !.val = PatchMixFac]
          [] OTHER -> nodes[i]]

LightmapEmissionLink == Link("BR_LightmapTex", "Color", "BR_Emission", "Color")

\* the link is never re-established
PatchLightmapLinkNever(nodes, links) == links

\* (re)establish the lightmap -> emission link when both nodes are present
PatchLightmapLink(nodes, links) ==
    IF HasNode(nodes, "BR_Emission") /\ HasNode(nodes, "BR_LightmapTex")
    THEN IF LightmapEmissionLink \in links THEN links
         ELSE LinkNew(links, LightmapEmissionLink)
    ELSE links

PatchTree(s, g, items) ==
    [g EXCEPT !.nodes = PatchScalars(s, PatchUvs(s, PatchTextures(s, g.nodes), items),
                                     g.links),
              !.links = PatchLightmapLink(g.nodes, g.links)]

(* ----------------------------- synchronizer ---------------------------- *)

\* the presence check misses the emission node
MissingCriticalNoEmission(nodes) ==
    ~HasNode(nodes, "BR_BSDF") \/ ~HasNode(nodes, "BR_MixShader")

\* any of the three load-bearing nodes is absent
MissingCritical(nodes) ==
    \E k \in DOMAIN CriticalNodes : ~HasNode(nodes, CriticalNodes[k])

\* the guard is never taken
IsSuppressedNever(m, sup) == FALSE

\* mat.as_pointer() in _SUPPRESSED_UPDATE_MATERIALS
IsSuppressed(m, sup) == m \in sup

\* which path _update_all_blenrose_nodes takes for material m
SyncPath(m, g, sup) ==
    IF IsSuppressed(m, sup) THEN "suppressed"
    ELSE IF ~UseNodes(g).has_tree THEN "notree"
    ELSE IF MissingCritical(UseNodes(g).nodes) THEN "rebuild"
    ELSE "patch"

\* _update_all_blenrose_nodes(self, context): the graph it leaves
UpdateAllBlenroseNodes(m, s, g, sup, items) ==
    CASE SyncPath(m, g, sup) = "suppressed" -> g
      [] SyncPath(m, g, sup) = "notree" -> UseNodes(g)
      [] SyncPath(m, g, sup) = "rebuild" -> BuildTree(s, UseNodes(g), items)
      [] OTHER -> PatchTree(s, UseNodes(g), items)

\* the prefix test is skipped: every node is removed
RemoveManagedAll(g) ==
    IF g.use_nodes /\ g.has_tree THEN ClearNodes(g) ELSE g

\* the enabled -> disabled branch of _update_enabled
RemoveManaged(g) ==
    IF g.use_nodes /\ g.has_tree
    THEN RemoveNodes(g, {n \in NodeNames(g.nodes) : IsManagedName(n)})
    ELSE g

(* ------------------------------- scene --------------------------------- *)

\* every UV-map name the model's scenes use, in sorted() order
UvNameOrder == <<"LM", "UV0", "UV1", "UVMap">>

MeshObject(mats, layers, active) ==
    [type |-> "MESH", material_slots |-> mats, uv_layers |-> layers, active |-> active]

UvLayer(name, activeRender) == [name |-> name, active_render |-> activeRender]

\* uv_channel_items: the identifiers of the UV enum, recomputed from the scene
UvChannelItems(objects) ==
    LET names == UNION {{objects[i].uv_layers[j].name : j \in DOMAIN objects[i].uv_layers} :
                           i \in {i \in DOMAIN objects : objects[i].type = "MESH"}} \ {""}
    IN  IF names = {} THEN <<"UV0", "UV1">>
        ELSE SelectSeq(UvNameOrder, LAMBDA n : n \in names)

\* the UV layer one object prefers: render-active, else active, else first
PreferredLayer(obj) ==
    LET ls == obj.uv_layers
        render == {j \in DOMAIN ls : ls[j].active_render /\ ls[j].name # ""}
    IN  IF render # {} THEN ls[CHOOSE j \in render : \A k \in render : j <= k].name
        ELSE IF obj.active \in DOMAIN ls /\ ls[obj.active].name # ""
             THEN ls[obj.active].name
        ELSE IF Len(ls) > 0 THEN ls[1].name
        ELSE ""

\* _guess_active_uv_for_material: the most common preferred name, "" if none
GuessActiveUv(m, objects) ==
    LET users == {i \in DOMAIN objects :
                     /\ objects[i].type = "MESH"
                     /\ m \in objects[i].material_slots
                     /\ Len(objects[i].uv_layers) > 0
                     /\ PreferredLayer(objects[i]) # ""}
        count(n) == Cardinality({i \in users : PreferredLayer(objects[i]) = n})
        first(n) == CHOOSE i \in users :
                        /\ PreferredLayer(objects[i]) = n
                        /\ \A j \in users : PreferredLayer(objects[j]) = n => i <= j
        names == {PreferredLayer(objects[i]) : i \in users}
    IN  IF users = {} THEN ""
        ELSE CHOOSE n \in names :
                 \A o \in names : count(n) > count(o)
                                     \/ (count(n) = count(o) /\ first(n) <= first(o))

(* --------------------------- UV resolution ----------------------------- *)

Unresolved(visited) == [res |-> "", visited |-> visited]

RECURSIVE TraceUvMapNameFromSocket(_, _, _, _, _, _)
RECURSIVE TraceInputs(_, _, _, _, _, _)

\* _trace_uv_map_name_from_socket: the name found upstream of input `socket`
\* of `node`, with the visited set the walk leaves
TraceUvMapNameFromSocket(g, guess, node, socket, visited, depth) ==
    LET into == {k \in g.links : k.to_node = node /\ k.to_socket = socket} IN
    IF depth > 8 \/ into = {} THEN Unresolved(visited)
    ELSE LET link == CHOOSE k \in into : TRUE IN
         IF link.from_node \in visited \/ ~HasNode(g.nodes, link.from_node)
         THEN Unresolved(visited)
         ELSE LET from_node == GetNode(g.nodes, link.from_node)
                  seen == visited \cup {link.from_node}
              IN  IF from_node.type = "UVMAP" /\ from_node.uv_map # ""
                  THEN [res |-> from_node.uv_map, visited |-> seen]
                  ELSE IF from_node.type = "TEX_COORD" /\ link.from_socket = "UV"
                  THEN [res |-> guess, visited |-> seen]
                  ELSE IF from_node.type = "ATTRIBUTE" /\ from_node.attribute_name # ""
                  THEN [res |-> from_node.attribute_name, visited |-> seen]
                  ELSE TraceInputs(g, guess, from_node, 1, seen, depth + 1)

\* the loop over from_node.inputs, from input number i on
TraceInputs(g, guess, from_node, i, visited, depth) ==
    IF i > Len(InputsOf(from_node.type)) THEN Unresolved(visited)
    ELSE LET r == TraceUvMapNameFromSocket(g, guess, from_node.name,
                                           InputsOf(from_node.type)[i], visited, depth)
         IN  IF r.res # "" THEN r
             ELSE TraceInputs(g, guess, from_node, i + 1, r.visited, depth)

\* _resolve_uv_map_for_image_node
ResolveUvMapForImageNode(g, guess, img_node) ==
    LET resolved == TraceUvMapNameFromSocket(g, guess, img_node.name, "Vector", {}, 0).res
    IN  IF resolved # "" THEN resolved ELSE guess

(* ---------------------------- auto-detector ---------------------------- *)

\* socket.name of a socket: both shader inputs of the mixer are named "Shader"
SocketName(socket) == IF socket = "Shader_001" THEN "Shader" ELSE socket

OutLinks(g, node) == {k \in g.links : k.from_node = node.name}

\* the channel-specific strong signal, per outgoing link
StrongSignal(channel, g, k) ==
    LET to_node == GetNode(g.nodes, k.to_node)
        to_name == Chars[SocketName(k.to_socket)]
    IN  CASE channel = "lightmap" -> to_node.type = "EMISSION"
          [] channel = "normal" ->
                 \/ to_node.type = "NORMAL_MAP"
                 \/ "Normal" \in Range(InputsOf(to_node.type))
          [] channel = "diffuse" ->
                 /\ Contains(to_name, Chars["Base Color"]) \/ Contains(to_name, Chars["Color"])
                 /\ to_node.type \in {"BSDF_PRINCIPLED", "BSDF_DIFFUSE"}
          [] channel = "specular" -> Contains(to_name, Chars["Specular"])
          [] OTHER -> FALSE

\* score of one (image node, channel) pair
Score(g, img_node, entry) ==
    LET node_name_lower == Lower(Chars[img_node.name] \o <<" ">> \o Chars[img_node.label])
        out == OutLinks(g, img_node)
        connected_targets == {SocketName(k.to_socket) : k \in out}
                                 \cup {GetNode(g.nodes, k.to_node).type : k \in out}
    IN    10 * Cardinality({i \in DOMAIN entry.keywords :
                               Contains(node_name_lower, Chars[entry.keywords[i]])})
        + 20 * Cardinality({i \in DOMAIN entry.targets :
                               entry.targets[i] \in connected_targets})
        + 30 * Cardinality({k \in out : StrongSignal(entry.channel, g, k)})

\* the scan keeps the last channel that reaches the best score
BestMatchLastWins(g, img_node) ==
    LET sc == [i \in DOMAIN ChannelDetection |-> Score(g, img_node, ChannelDetection[i])]
        top == CHOOSE i \in DOMAIN sc :
                   \A j \in DOMAIN sc : sc[i] > sc[j] \/ (sc[i] = sc[j] /\ i >= j)
    IN  IF sc[top] > 0 THEN ChannelDetection[top].channel ELSE ""

\* the highest-scoring channel of a node, the first in table order among
\* equals (the scan replaces the best only on a strictly higher score); ""
\* when every score is zero
BestMatch(g, img_node) ==
    LET sc == [i \in DOMAIN ChannelDetection |-> Score(g, img_node, ChannelDetection[i])]
        top == CHOOSE i \in DOMAIN sc :
                   \A j \in DOMAIN sc : sc[i] > sc[j] \/ (sc[i] = sc[j] /\ i <= j)
    IN  IF sc[top] > 0 THEN ChannelDetection[top].channel ELSE ""

\* the loop without the `best_match not in detected_textures` test: every
\* image node with a best channel gets an entry
DetectFromEveryNode(g, guess, i, detected) ==
    LET rest == SelectSeq(SubSeq(g.nodes, i, Len(g.nodes)),
                          LAMBDA n : /\ n.type = "TEX_IMAGE" /\ n.image # NoImage
                                     /\ BestMatch(g, n) # "")
    IN  detected \o [k \in DOMAIN rest |->
                        [channel |-> BestMatch(g, rest[k]), image |-> rest[k].image,
                         uv_map_name |-> ResolveUvMapForImageNode(g, guess, rest[k]),
                         image_node |-> rest[k].name]]

RECURSIVE DetectFrom(_, _, _, _)
\* the loop over image nodes, from node number i on, `detected` so far
DetectFrom(g, guess, i, detected) ==
    IF i > Len(g.nodes) THEN detected
    ELSE LET n == g.nodes[i] IN
         IF n.type = "TEX_IMAGE" /\ n.image # NoImage
         THEN LET best_match == BestMatch(g, n) IN
              IF /\ best_match # ""
                 /\ \A k \in DOMAIN detected : detected[k].channel # best_match
              THEN DetectFrom(g, guess, i + 1,
                       Append(detected,
                              [channel |-> best_match, image |-> n.image,
                               uv_map_name |-> ResolveUvMapForImageNode(g, guess, n),
                               image_node |-> n.name]))
              ELSE DetectFrom(g, guess, i + 1, detected)
         ELSE DetectFrom(g, guess, i + 1, detected)

\* _detect_textures_from_node_tree(mat): the entries in insertion order
DetectTexturesFromNodeTree(g, guess) ==
    IF ~g.use_nodes \/ ~g.has_tree THEN <<>> ELSE DetectFrom(g, guess, 1, <<>>)

(* ------------------------ export: serializer --------------------------- *)

\* image.filepath of each image datablock ("" for a packed image)
ImageFilepath == <<"//textures/a.png", "">>

\* bpy.path.abspath on a blend-relative path
AbsPath(filepath) == <<"/project", filepath>>

\* the value a file path takes when there is none (None)
NoPath == <<>>

\* get_image_path
GetImagePath(image) ==
    IF image # NoImage /\ ImageFilepath[image] # "" THEN AbsPath(ImageFilepath[image])
    ELSE NoPath

\* the two shapes in which the host may hand out an enum value stored for a
\* property with dynamic items: its identifier, or its stored index
EnumForms == {"identifier", "index"}

\* the index a stored enum value resolves to in `items`: an identifier is
\* looked up and falls back to 0, an index is taken as it is
ResolveIndex(form, identifier, index, items) ==
    IF form = "identifier"
    THEN IF ItemIndex(items, identifier) >= 0 THEN ItemIndex(items, identifier) ELSE 0
    ELSE index

\* get_uv_name
GetUvName(s, c, form, items) ==
    LET uv_index == ResolveIndex(form, UvName(s, c, items), s.uv[c], items)
    IN  IF uv_index < Len(items) THEN items[uv_index + 1] ELSE "UVMap"

\* channel_configs of _build_textures_dict, in order
ChannelConfigs ==
    <<"diffuse", "lightmap", "specular", "normal", "detail", "macro_overlay",
      "environment", "decal", "transparent", "noise">>

\* the dict with only the channels whose image has a file path
BuildTexturesDictPathOnly(s, form, items) ==
    [c \in {c \in Range0(ChannelConfigs) : GetImagePath(s.tex[c]) # NoPath} |->
        [image_path |-> GetImagePath(s.tex[c]), uv |-> GetUvName(s, c, form, items)]]

\* _build_textures_dict: only the channels with a texture, path or packed
BuildTexturesDict(s, form, items) ==
    [c \in {c \in Range0(ChannelConfigs) :
                GetImagePath(s.tex[c]) # NoPath \/ s.tex[c] # NoImage} |->
        [image_path |-> GetImagePath(s.tex[c]), uv |-> GetUvName(s, c, form, items)]]

\* the subclass name _extract_blenrose_material_data resolves
SubclassName(s, form) ==
    IF s.material_class \in DOMAIN MaterialSubclasses
    THEN LET subclass_items == MaterialSubclasses[s.material_class]
             subclass_index == ResolveIndex(form, SubclassRead(s), s.material_subclass,
                                            subclass_items)
         IN  IF subclass_index < Len(subclass_items)
             THEN subclass_items[subclass_index + 1] ELSE "default"
    ELSE "default"

\* f"{material_class.lower()}.{material_subclass_name.lower()}"
MaterialNameExport(class, subclass) ==
    Lower(Chars[class]) \o Chars["."] \o Lower(Chars[subclass])

\* _extract_blenrose_material_data (notes and the collision strings are
\* copied through and carry no behaviour here)
ExtractBlenroseMaterialData(s, form, items) ==
    [material_name |-> MaterialNameExport(s.material_class, SubclassName(s, form)),
     enabled |-> s.enabled,
     material_class |-> s.material_class,
     material_subclass |-> SubclassName(s, form),
     textures |-> BuildTexturesDict(s, form, items),
     scalars |-> [detail_normal_uv_scale |-> s.detail_normal_uv_scale,
                  macro_overlay_opacity |-> s.macro_overlay_opacity,
                  macro_overlay_uv_scale |-> s.macro_overlay_uv_scale,
                  embedded_decal |-> s.embedded_decal]]

(* ------------------------- export: geometry ---------------------------- *)

\* an axis-aligned box by its two extreme corners
Box(lo, hi) == [min |-> lo, max |-> hi]

\* a bounding box that is None
NoBbox == [min |-> <<>>, max |-> <<>>]

\* the remap without the change of sign
ToPsgUnsigned(p) == <<p[1], p[3], p[2]>>

\* COORDINATE TRANSFORM: Blender (X, Y, Z) -> PSG (X, Z, -Y)
ToPsg(p) == <<p[1], p[3], -p[2]>>

SetMin(S) == CHOOSE x \in S : \A y \in S : x <= y

SetMax(S) == CHOOSE x \in S : \A y \in S : x >= y

\* the box spanned by a non-empty set of points
Span(points) ==
    Box(<<SetMin({p[1] : p \in points}), SetMin({p[2] : p \in points}),
          SetMin({p[3] : p \in points})>>,
        <<SetMax({p[1] : p \in points}), SetMax({p[2] : p \in points}),
          SetMax({p[3] : p \in points})>>)

\* _calculate_bbox_from_points
CalculateBboxFromPoints(points) ==
    IF points = <<>> THEN NoBbox ELSE Span(Range0(points))

\* the eight corners of obj.bound_box in world space: the box around the
\* faces of every slot of the object
BoundBoxCorners(obj) ==
    LET hull == Span(UNION {{obj.parts[i].box.min, obj.parts[i].box.max} :
                                i \in DOMAIN obj.parts})
    IN  {<<x, y, z>> : x \in {hull.min[1], hull.max[1]},
                       y \in {hull.min[2], hull.max[2]},
                       z \in {hull.min[3], hull.max[3]}}

\* _calculate_bbox_for_objects
CalculateBboxForObjects(objs) ==
    LET corners == UNION {{ToPsg(p) : p \in BoundBoxCorners(objs[i])} :
                              i \in {i \in DOMAIN objs : objs[i].type = "MESH"}}
    IN  IF objs = <<>> \/ corners = {} THEN NoBbox ELSE Span(corners)

\* the test with strict comparisons: boxes that only touch do not intersect
BboxIntersectsStrict(bbox1, bbox2) ==
    IF bbox1 = NoBbox \/ bbox2 = NoBbox THEN FALSE
    ELSE /\ bbox1.min[1] < bbox2.max[1] /\ bbox1.max[1] > bbox2.min[1]
         /\ bbox1.min[2] < bbox2.max[2] /\ bbox1.max[2] > bbox2.min[2]
         /\ bbox1.min[3] < bbox2.max[3] /\ bbox1.max[3] > bbox2.min[3]

\* the test without the third axis
BboxIntersectsTwoAxes(bbox1, bbox2) ==
    IF bbox1 = NoBbox \/ bbox2 = NoBbox THEN FALSE
    ELSE /\ bbox1.min[1] <= bbox2.max[1] /\ bbox1.max[1] >= bbox2.min[1]
         /\ bbox1.min[2] <= bbox2.max[2] /\ bbox1.max[2] >= bbox2.min[2]

\* _bbox_intersects
BboxIntersects(bbox1, bbox2) ==
    IF bbox1 = NoBbox \/ bbox2 = NoBbox THEN FALSE
    ELSE /\ bbox1.min[1] <= bbox2.max[1] /\ bbox1.max[1] >= bbox2.min[1]
         /\ bbox1.min[2] <= bbox2.max[2] /\ bbox1.max[2] >= bbox2.min[2]
         /\ bbox1.min[3] <= bbox2.max[3] /\ bbox1.max[3] >= bbox2.min[3]

\* the world-space points _extract_splines_from_scene reads from a spline
SplinePoints(spline) ==
    IF spline.type \in {"POLY", "NURBS"} THEN spline.points
    ELSE IF spline.type = "BEZIER" THEN spline.bezier_points
    ELSE <<>>

\* the entries _extract_splines_from_scene makes of one curve object
SplinesOfCurve(obj) ==
    LET kept == SelectSeq(obj.splines, LAMBDA sp : Len(SplinePoints(sp)) >= 2)
    IN  [k \in DOMAIN kept |->
            [name |-> obj.name,
             points |-> [j \in DOMAIN SplinePoints(kept[k]) |->
                            ToPsg(SplinePoints(kept[k])[j])],
             is_closed |-> kept[k].use_cyclic_u,
             type |-> kept[k].type,
             bbox |-> CalculateBboxFromPoints(
                          [j \in DOMAIN SplinePoints(kept[k]) |->
                              ToPsg(SplinePoints(kept[k])[j])])]]

RECURSIVE ExtractSplinesFrom(_, _)
ExtractSplinesFrom(objs, i) ==
    IF i > Len(objs) THEN <<>>
    ELSE IF objs[i].type = "CURVE" /\ objs[i].visible
         THEN SplinesOfCurve(objs[i]) \o ExtractSplinesFrom(objs, i + 1)
         ELSE ExtractSplinesFrom(objs, i + 1)

\* _extract_splines_from_scene
ExtractSplinesFromScene(objs) == ExtractSplinesFrom(objs, 1)

(* ------------------------ export: partitioning ------------------------- *)

\* the key of the partition of objects without a material (None)
NoMaterial == 0

\* material_groups.setdefault(key, []).append(obj)
GroupAdd(groups, key, obj) ==
    IF \E i \in DOMAIN groups : groups[i].key = key
    THEN [i \in DOMAIN groups |->
             IF groups[i].key = key
             THEN [groups[i] EXCEPT !.objects = Append(@, obj)] ELSE groups[i]]
    ELSE Append(groups, [key |-> key, objects |-> <<obj>>])

\* [slot.material for slot in obj.material_slots if slot.material]
SlotMaterials(obj) ==
    LET used == SelectSeq(obj.parts, LAMBDA part : part.material # NoMaterial)
    IN  [i \in DOMAIN used |-> used[i].material]

\* bpy.ops.mesh.separate(type='MATERIAL'): one object per slot, each keeping
\* the faces and the material of its slot; the first is the original object.
\* `reversed` is the order in which the host lists the selected objects.
Separate(obj, reversed) ==
    LET n == Len(obj.parts)
        piece(j) == [obj EXCEPT !.parts = <<obj.parts[j]>>,
                                !.material_slots = {obj.parts[j].material} \ {NoMaterial},
                                !.piece = j - 1]
    IN  [j \in 1..n |-> IF reversed THEN piece(n + 1 - j) ELSE piece(j)]

RECURSIVE AddPiecesUnderFirst(_, _, _)
\* the loop over separated_objects with every piece put under the material
\* of the first piece
AddPiecesUnderFirst(groups, pieces, j) ==
    IF j > Len(pieces) THEN groups
    ELSE AddPiecesUnderFirst(GroupAdd(groups,
                                      IF SlotMaterials(pieces[1]) # <<>>
                                      THEN SlotMaterials(pieces[1])[1] ELSE NoMaterial,
                                      pieces[j]),
                             pieces, j + 1)

RECURSIVE AddPieces(_, _, _)
\* the loop over separated_objects
AddPieces(groups, pieces, j) ==
    IF j > Len(pieces) THEN groups
    ELSE AddPieces(GroupAdd(groups,
                            IF SlotMaterials(pieces[j]) # <<>>
                            THEN SlotMaterials(pieces[j])[1] ELSE NoMaterial,
                            pieces[j]),
                   pieces, j + 1)

RECURSIVE MaterialGroups(_, _, _, _)
\* the partitioning loop over mesh_objects
MaterialGroups(objs, i, groups, reversed) ==
    IF i > Len(objs) THEN groups
    ELSE IF objs[i].type # "MESH" \/ ~objs[i].visible
         THEN MaterialGroups(objs, i + 1, groups, reversed)
    ELSE IF SlotMaterials(objs[i]) = <<>>
         THEN MaterialGroups(objs, i + 1, GroupAdd(groups, NoMaterial, objs[i]), reversed)
    ELSE IF Len(SlotMaterials(objs[i])) = 1
         THEN MaterialGroups(objs, i + 1,
                             GroupAdd(groups, SlotMaterials(objs[i])[1], objs[i]), reversed)
    ELSE MaterialGroups(objs, i + 1,
                        AddPieces(groups, Separate(objs[i], reversed), 1), reversed)

\* the scene's objects once the multi-material meshes are separated
RECURSIVE SceneAfterSplit(_, _, _)
SceneAfterSplit(objs, i, reversed) ==
    IF i > Len(objs) THEN <<>>
    ELSE IF /\ objs[i].type = "MESH" /\ objs[i].visible
            /\ Len(SlotMaterials(objs[i])) > 1
         THEN Separate(objs[i], reversed) \o SceneAfterSplit(objs, i + 1, reversed)
         ELSE <<objs[i]>> \o SceneAfterSplit(objs, i + 1, reversed)

\* material_group_bboxes: the partitions that have a bounding box, in order
MaterialGroupBboxes(groups) ==
    LET all == [i \in DOMAIN groups |->
                    [key |-> groups[i].key,
                     bbox |-> CalculateBboxForObjects(groups[i].objects)]]
    IN  SelectSeq(all, LAMBDA e : e.bbox # NoBbox)

\* the key of the first partition whose box a spline's box intersects,
\* -1 when the inner loop ends without a break
AssignedKey(spline, bboxes) ==
    LET hits == {i \in DOMAIN bboxes : BboxIntersects(spline.bbox, bboxes[i].bbox)}
    IN  IF spline.bbox = NoBbox \/ hits = {} THEN -1
        ELSE bboxes[SetMin(hits)].key

\* material_splines: partition key -> the splines assigned to it, in order
MaterialSplines(groups, bboxes, splines) ==
    [i \in DOMAIN groups |->
        SelectSeq(splines, LAMBDA sp : AssignedKey(sp, bboxes) = groups[i].key)]

(* ------------------------- export: file names -------------------------- *)

\* material.name of each material (the host keeps the names distinct)
MaterialName == <<"Wall A", "Wall.A">>

Digits == <<"0", "1", "2", "3", "4", "5", "6", "7", "8", "9">>

Letters == DOMAIN LowerChar \cup {LowerChar[c] : c \in DOMAIN LowerChar}

\* bpy.path.clean_name: every character besides A-Z, a-z and 0-9 becomes "_"
CleanName(cs) ==
    [i \in DOMAIN cs |-> IF cs[i] \in Letters \cup Range0(Digits) THEN cs[i] ELSE "_"]

RECURSIVE Str(_)
\* str(n) of a natural number
Str(n) == IF n < 10 THEN <<Digits[n + 1]>> ELSE Str(n \div 10) \o <<Digits[(n % 10) + 1]>>

\* the file name of f"{safe_name}.glb" inside export_dir
GlbPath(safe_name) == safe_name \o Chars[".glb"]

\* base_name of a partition
BaseName(key) ==
    IF key # NoMaterial THEN CleanName(Chars[MaterialName[key]]) ELSE Chars["NO_MATERIAL"]

RECURSIVE MakeUnique(_, _, _, _)
\* the `while os.path.exists(glb_path)` loop
MakeUnique(base_name, safe_name, counter, fs) ==
    IF GlbPath(safe_name) \in fs
    THEN MakeUnique(base_name, base_name \o Chars["_"] \o Str(counter), counter + 1, fs)
    ELSE safe_name

\* no export has run
NoRun ==
    [pc |-> "none", form |-> "identifier", groups |-> <<>>, bboxes |-> <<>>,
     all_splines |-> <<>>, material_splines |-> <<>>, i |-> 0,
     exported_objects |-> 0, failed |-> 0, exported_materials |-> <<>>,
     paths |-> <<>>, attempted |-> <<>>, raised |-> <<>>, json |-> "none"]

(* ------------------------------- state --------------------------------- *)

VARIABLES
    settings,    \* material -> its BlenroseMaterialSettings record
    graph,       \* material -> its shading graph (use_nodes, node_tree)
    objects,     \* bpy.data.objects: the scene's mesh objects
    files,       \* the file names present in the export directory
    export_dir,  \* whether the export directory exists
    run,         \* the bulk export: its position, partitions, counters and document
    call,        \* the helper function being evaluated: its name, arguments and result
    suppressed,  \* _SUPPRESSED_UPDATE_MATERIALS
    updating,    \* bpy.app._blenrose_updating
    pc,          \* the handler that is running: "idle", "fill", "build", "detect", "hook"
    cur,         \* the material of the running pass (0 when none)
    at,          \* the periodic hook's position in bpy.data.materials
    todo,        \* detected entries the running pass has still to write
    found,       \* detected entries of the running pass, as detection returned them
    before,      \* the settings records as they stood when the running pass began
    depth,       \* periodic-hook passes in progress
    refused,     \* re-entrant hook invocations turned away so far
    blenrose_mat_index,  \* scene.blenrose_mat_index: the material the editor shows
    steps,       \* user/environment operations so far
    last         \* the step just taken: [op, mat, path]

vars == <<settings, graph, objects, files, export_dir, run, call, suppressed, updating, pc, cur, at, todo, found,
          before, depth, refused, blenrose_mat_index, steps, last>>

Step(op, m, path) == [op |-> op, mat |-> m, path |-> path]

\* no helper call is being evaluated
NoCall == [fn |-> "none"]

(* --------------------------- initial states ---------------------------- *)

\* one mesh using both materials, with UV layers "LM" and "UVMap" (render-active)
SceneObjects ==
    << MeshObject({1, 2}, <<UvLayer("LM", FALSE), UvLayer("UVMap", TRUE)>>, 1) >>

\* a graph the user authored before enabling BlenRose
Authored ==
    [use_nodes |-> TRUE, has_tree |-> TRUE,
     nodes |-> << Node("Principled BSDF", "BSDF_PRINCIPLED", ""),
                  Node("Material Output", "OUTPUT_MATERIAL", ""),
                  [Node("UV Map", "UVMAP", "") EXCEPT !.uv_map = "LM"],
                  [Node("Diffuse_Color", "TEX_IMAGE", "") EXCEPT !.image = 1],
                  Node("Emission", "EMISSION", ""),
                  Node("Texture Coordinate", "TEX_COORD", ""),
                  Node("Mapping", "MAPPING", ""),
                  [Node("LM_Bake", "TEX_IMAGE", "") EXCEPT !.image = 2] >>,
     links |-> { Link("Principled BSDF", "BSDF", "Material Output", "Surface"),
                 Link("UV Map", "UV", "Diffuse_Color", "Vector"),
                 Link("Diffuse_Color", "Color", "Principled BSDF", "Base Color"),
                 Link("Texture Coordinate", "UV", "Mapping", "Vector"),
                 Link("Mapping", "Vector", "LM_Bake", "Vector"),
                 Link("LM_Bake", "Color", "Emission", "Color") }]

Init ==
    /\ settings = [m \in Mats |-> DefaultSettings]
    /\ graph = [m \in Mats |-> IF m = 1 THEN Authored ELSE NoTree]
    /\ objects = SceneObjects
    /\ files = {}
    /\ run = NoRun
    /\ call = NoCall
    /\ export_dir = TRUE
    /\ suppressed = {}
    /\ updating = FALSE
    /\ pc = "idle"
    /\ cur = 0
    /\ at = 0
    /\ todo = <<>>
    /\ found = <<>>
    /\ before = settings
    /\ depth = 0
    /\ refused = 0
    /\ blenrose_mat_index = 0
    /\ steps = 0
    /\ last = Step("init", 0, "")

Items == UvChannelItems(objects)

Guess(m) == GuessActiveUv(m, objects)

Idle == pc = "idle" /\ steps < MaxSteps

\* mats[idx]: the material the panel and its operators act on
Active == MatOrder[blenrose_mat_index + 1]

PassVarsIdle ==
    /\ pc' = "idle" /\ cur' = 0 /\ at' = 0 /\ todo' = <<>> /\ found' = <<>>
    /\ before' = settings'

(* ------------------------ user settings writes ------------------------- *)

\* a property write from the panel: the value is stored, then the property's
\* update callback (_update_all_blenrose_nodes) runs
WriteSettings(m, s, op) ==
    /\ settings' = [settings EXCEPT ![m] = s]
    /\ graph' = [graph EXCEPT
                    ![m] = UpdateAllBlenroseNodes(m, s, graph[m], suppressed, Items)]
    /\ last' = Step(op, m, SyncPath(m, graph[m], suppressed))
    /\ steps' = steps + 1
    /\ before' = settings'
    /\ UNCHANGED <<objects, files, export_dir, run, call, suppressed, updating, pc, cur, at, todo, found, depth, refused,
                   blenrose_mat_index>>

UserSetTex(c, img) ==
    /\ Idle
    /\ WriteSettings(Active, [settings[Active] EXCEPT !.tex[c] = img], "write")

UserSetUv(c, idx) ==
    /\ Idle
    /\ WriteSettings(Active, [settings[Active] EXCEPT !.uv[c] = idx], "write")

UserSetScalar(field, v) ==
    /\ Idle
    /\ WriteSettings(Active,
           CASE field = "detail_normal_uv_scale" ->
                    [settings[Active] EXCEPT !.detail_normal_uv_scale = v]
             [] field = "macro_overlay_opacity" ->
                    [settings[Active] EXCEPT !.macro_overlay_opacity = v]
             [] OTHER -> [settings[Active] EXCEPT !.macro_overlay_uv_scale = v],
           "write")

\* the user picks another material in the editor's list
SelectMaterial(idx) ==
    /\ Idle
    /\ idx # blenrose_mat_index
    /\ blenrose_mat_index' = idx
    /\ steps' = steps + 1
    /\ last' = Step("select", MatOrder[idx + 1], "")
    /\ UNCHANGED <<settings, graph, objects, files, export_dir, run, call, suppressed, updating, pc, cur, at, todo, found,
                   before, depth, refused>>

(* ------------------------- detection write-back ------------------------ *)

\* 0-based index of the enum item whose identifier is `name`, -1 if none
UvIndexOf(name, items) ==
    IF \E i \in DOMAIN items : items[i] = name
    THEN (CHOOSE i \in DOMAIN items :
              items[i] = name /\ \A j \in 1..(i - 1) : items[j] # name) - 1
    ELSE -1

\* one iteration of the batch-write loop of _auto_fill_textures_from_node_tree:
\* the settings record and the graph it leaves (each setattr runs the
\* property's update callback)
FillEntry(m, s, g, e, update_existing, sup, items) ==
    LET writeTex == update_existing \/ s.tex[e.channel] = NoImage
        s1 == IF writeTex THEN [s EXCEPT !.tex[e.channel] = e.image] ELSE s
        g1 == IF writeTex THEN UpdateAllBlenroseNodes(m, s1, g, sup, items) ELSE g
        writeUv == e.uv_map_name # "" /\ UvIndexOf(e.uv_map_name, items) >= 0
        s2 == IF writeUv
              THEN [s1 EXCEPT !.uv[e.channel] = UvIndexOf(e.uv_map_name, items)]
              ELSE s1
        g2 == IF writeUv THEN UpdateAllBlenroseNodes(m, s2, g1, sup, items) ELSE g1
    IN  [settings |-> s2, graph |-> g2]

\* the UV half of the iteration is skipped
ActionEntryNoUv(m, s, g, e, sup, items) ==
    LET s1 == [s EXCEPT !.tex[e.channel] = e.image]
    IN  [settings |-> s1, graph |-> UpdateAllBlenroseNodes(m, s1, g, sup, items)]

\* one iteration of the loop of BLENROSE_OT_auto_detect_textures.execute
ActionEntry(m, s, g, e, sup, items) ==
    LET s1 == [s EXCEPT !.tex[e.channel] = e.image]
        g1 == UpdateAllBlenroseNodes(m, s1, g, sup, items)
        writeUv == e.uv_map_name # "" /\ UvIndexOf(e.uv_map_name, items) >= 0
        s2 == IF writeUv
              THEN [s1 EXCEPT !.uv[e.channel] = UvIndexOf(e.uv_map_name, items)]
              ELSE s1
        g2 == IF writeUv THEN UpdateAllBlenroseNodes(m, s2, g1, sup, items) ELSE g1
    IN  [settings |-> s2, graph |-> g2]

\* one iteration of the inner loop of _node_tree_update_handler
HookEntry(m, s, g, e, sup, items) ==
    IF e.image # NoImage /\ e.image # s.tex[e.channel]
    THEN LET s1 == [s EXCEPT !.tex[e.channel] = e.image]
         IN  [settings |-> s1, graph |-> UpdateAllBlenroseNodes(m, s1, g, sup, items)]
    ELSE [settings |-> s, graph |-> g]

\* _SUPPRESSED_UPDATE_MATERIALS.add(mat_ptr)
FillSuppress(sup, m) == sup \cup {m}

\* the finally clause is missing: the identity stays in the set
FillFinallyKeeps(sup, m) == sup

\* finally: _SUPPRESSED_UPDATE_MATERIALS.discard(mat_ptr)
FillFinally(sup, m) == sup \ {m}

(* ------------------------ enable / disable ----------------------------- *)

\* settings.enabled = True: _update_enabled starts; with a node tree it enters
\* the fill pass, otherwise it goes straight to the rebuild
Enable ==
    /\ Idle
    /\ settings' = [settings EXCEPT ![Active].enabled = TRUE]
    /\ before' = settings'
    /\ cur' = Active
    /\ steps' = steps + 1
    /\ IF graph[Active].use_nodes /\ graph[Active].has_tree
       THEN /\ pc' = "fill"
            /\ todo' = DetectTexturesFromNodeTree(graph[Active], Guess(Active))
            /\ found' = todo'
            /\ suppressed' = FillSuppress(suppressed, Active)
       ELSE /\ pc' = "build"
            /\ todo' = <<>>
            /\ found' = <<>>
            /\ suppressed' = suppressed
    /\ last' = Step("enable", Active, "")
    /\ UNCHANGED <<graph, objects, files, export_dir, run, call, updating, at, depth, refused, blenrose_mat_index>>

FillWrite ==
    /\ pc = "fill" /\ todo # <<>>
    /\ LET r == FillEntry(cur, settings[cur], graph[cur], Head(todo), FALSE,
                          suppressed, Items)
       IN  /\ settings' = [settings EXCEPT ![cur] = r.settings]
           /\ graph' = [graph EXCEPT ![cur] = r.graph]
    /\ todo' = Tail(todo)
    /\ last' = Step("fill_write", cur, SyncPath(cur, graph[cur], suppressed))
    /\ UNCHANGED <<objects, files, export_dir, run, call, suppressed, updating, pc, cur, at, found, before, depth,
                   refused, steps, blenrose_mat_index>>

\* the loop is over: the finally clause runs and _update_enabled goes on
FillEnd ==
    /\ pc = "fill" /\ todo = <<>>
    /\ suppressed' = FillFinally(suppressed, cur)
    /\ pc' = "build"
    /\ last' = Step("fill_end", cur, "")
    /\ UNCHANGED <<settings, graph, objects, files, export_dir, run, call, updating, cur, at, todo, found, before,
                   depth, refused, steps, blenrose_mat_index>>

\* an iteration raises: the finally clause runs, the error leaves
\* _update_enabled, and the rebuild is not reached
FillRaise ==
    /\ pc = "fill" /\ todo # <<>>
    /\ suppressed' = FillFinally(suppressed, cur)
    /\ last' = Step("fill_raise", cur, "")
    /\ UNCHANGED <<settings, graph, objects, files, export_dir, run, call, updating, depth, refused, steps, blenrose_mat_index>>
    /\ PassVarsIdle

\* _build_blenrose_node_tree(mat), the last statement of the enable branch
EnableBuild ==
    /\ pc = "build"
    /\ graph' = [graph EXCEPT ![cur] = BuildTree(settings[cur], graph[cur], Items)]
    /\ last' = Step("enable_build", cur, "rebuild")
    /\ UNCHANGED <<settings, objects, files, export_dir, run, call, suppressed, updating, depth, refused, steps, blenrose_mat_index>>
    /\ PassVarsIdle

\* settings.enabled = False: the managed nodes are removed
Disable ==
    /\ Idle
    /\ settings' = [settings EXCEPT ![Active].enabled = FALSE]
    /\ before' = settings'
    /\ graph' = [graph EXCEPT ![Active] = RemoveManaged(graph[Active])]
    /\ last' = Step("disable", Active,
                    IF settings[Active].enabled THEN "was_enabled" ELSE "was_disabled")
    /\ steps' = steps + 1
    /\ UNCHANGED <<objects, files, export_dir, run, call, suppressed, updating, pc, cur, at, todo, found, depth, refused,
                   blenrose_mat_index>>

(* --------------------- explicit auto-detect action --------------------- *)

\* BLENROSE_OT_auto_detect_textures.execute on an enabled material: detection
AutoDetect ==
    /\ Idle
    /\ settings[Active].enabled
    /\ pc' = "detect"
    /\ cur' = Active
    /\ todo' = DetectTexturesFromNodeTree(graph[Active], Guess(Active))
    /\ found' = todo'
    /\ last' = Step("detect", Active, "")
    /\ steps' = steps + 1
    /\ UNCHANGED <<settings, graph, objects, files, export_dir, run, call, suppressed, updating, at, before, depth,
                   refused, blenrose_mat_index>>

DetectWrite ==
    /\ pc = "detect" /\ todo # <<>>
    /\ LET r == ActionEntry(cur, settings[cur], graph[cur], Head(todo), suppressed, Items)
       IN  /\ settings' = [settings EXCEPT ![cur] = r.settings]
           /\ graph' = [graph EXCEPT ![cur] = r.graph]
    /\ todo' = Tail(todo)
    /\ last' = Step("detect_write", cur, SyncPath(cur, graph[cur], suppressed))
    /\ UNCHANGED <<objects, files, export_dir, run, call, suppressed, updating, pc, cur, at, found, before, depth,
                   refused, steps, blenrose_mat_index>>

DetectEnd ==
    /\ pc = "detect" /\ todo = <<>>
    /\ last' = Step("detect_end", cur, "")
    /\ UNCHANGED <<settings, graph, objects, files, export_dir, run, call, suppressed, updating, depth, refused, steps,
                   blenrose_mat_index>>
    /\ PassVarsIdle

(* --------------------------- periodic hook ----------------------------- *)

\* the guard is never taken
HookBusyNever(flag) == FALSE

\* if bpy.app._blenrose_updating: return
HookBusy(flag) == flag

\* the hook is invoked and the flag is clear: the pass begins
HookEnter ==
    /\ pc \in {"idle", "hook"}
    /\ steps < MaxSteps
    /\ ~HookBusy(updating)
    /\ updating' = TRUE
    /\ pc' = "hook"
    /\ cur' = 0
    /\ at' = 1
    /\ todo' = <<>>
    /\ found' = <<>>
    /\ before' = settings
    /\ depth' = depth + 1
    /\ steps' = steps + 1
    /\ last' = Step("hook_enter", 0, "")
    /\ UNCHANGED <<settings, graph, objects, files, export_dir, run, call, suppressed, refused, blenrose_mat_index>>

\* the hook is invoked while the flag is set: it returns at once
HookRefuse ==
    /\ pc \in {"idle", "hook"}
    /\ HookBusy(updating)
    /\ refused < MaxRefused
    /\ refused' = refused + 1
    /\ last' = Step("hook_refused", cur, "")
    /\ UNCHANGED <<settings, graph, objects, files, export_dir, run, call, suppressed, updating, pc, cur, at, todo,
                   found, before, depth, steps, blenrose_mat_index>>

\* the next material of the outer loop: skipped, or detected
HookNext ==
    /\ pc = "hook" /\ todo = <<>> /\ at <= Len(MatOrder)
    /\ LET m == MatOrder[at] IN
       /\ cur' = m
       /\ IF ~graph[m].use_nodes \/ ~graph[m].has_tree \/ ~settings[m].enabled
          THEN todo' = <<>>
          ELSE todo' = DetectTexturesFromNodeTree(graph[m], Guess(m))
       /\ found' = todo'
       /\ last' = Step("hook_next", m, "")
    /\ at' = at + 1
    /\ UNCHANGED <<settings, graph, objects, files, export_dir, run, call, suppressed, updating, pc, before, depth,
                   refused, steps, blenrose_mat_index>>

HookWrite ==
    /\ pc = "hook" /\ todo # <<>>
    /\ LET r == HookEntry(cur, settings[cur], graph[cur], Head(todo), suppressed, Items)
       IN  /\ settings' = [settings EXCEPT ![cur] = r.settings]
           /\ graph' = [graph EXCEPT ![cur] = r.graph]
           /\ last' = Step("hook_write", cur,
                           IF r.settings = settings[cur] THEN "same"
                           ELSE SyncPath(cur, graph[cur], suppressed))
    /\ todo' = Tail(todo)
    /\ UNCHANGED <<objects, files, export_dir, run, call, suppressed, updating, pc, cur, at, found, before, depth,
                   refused, steps, blenrose_mat_index>>

\* every material has been visited: finally clears the flag
HookExit ==
    /\ pc = "hook" /\ todo = <<>> /\ at > Len(MatOrder)
    /\ updating' = FALSE
    /\ depth' = depth - 1
    /\ last' = Step("hook_exit", 0, "")
    /\ UNCHANGED <<settings, graph, objects, files, export_dir, run, call, suppressed, refused, steps, blenrose_mat_index>>
    /\ PassVarsIdle

\* an iteration raises: finally clears the flag and the error leaves the hook
HookRaise ==
    /\ pc = "hook" /\ todo # <<>>
    /\ updating' = FALSE
    /\ depth' = depth - 1
    /\ last' = Step("hook_raise", cur, "")
    /\ UNCHANGED <<settings, graph, objects, files, export_dir, run, call, suppressed, refused, steps, blenrose_mat_index>>
    /\ PassVarsIdle

(* ------------------- user edits in the shader editor ------------------- *)

EditGraph(g, op) ==
    /\ Idle
    /\ graph' = [graph EXCEPT ![Active] = g]
    /\ last' = Step(op, Active, "")
    /\ steps' = steps + 1
    /\ UNCHANGED <<settings, objects, files, export_dir, run, call, suppressed, updating, pc, cur, at, todo, found,
                   before, depth, refused, blenrose_mat_index>>

\* the user deletes a node
UserDeleteNode(name) ==
    /\ name \in NodeNames(graph[Active].nodes)
    /\ EditGraph(RemoveNodes(graph[Active], {name}), "delete_node")

\* the user cuts a link
UserRemoveLink(k) ==
    /\ k \in graph[Active].links
    /\ EditGraph([graph[Active] EXCEPT !.links = @ \ {k}], "remove_link")

\* the user drives the mixer's blend factor from an image node's alpha
UserLinkFac(name) ==
    /\ HasNode(graph[Active].nodes, "BR_MixShader")
    /\ HasNode(graph[Active].nodes, name)
    /\ GetNode(graph[Active].nodes, name).type = "TEX_IMAGE"
    /\ EditGraph([graph[Active] EXCEPT
                     !.links = LinkNew(@, Link(name, "Alpha", "BR_MixShader", "Fac"))],
                 "link_fac")

\* the user adds an image node, optionally wired to a surface shader's base colour
UserAddImageNode(name, img, target) ==
    /\ graph[Active].has_tree
    /\ name \notin NodeNames(graph[Active].nodes)
    /\ target = "" \/ HasNode(graph[Active].nodes, target)
    /\ EditGraph(
           [graph[Active] EXCEPT
               !.nodes = Append(@, [Node(name, "TEX_IMAGE", "") EXCEPT !.image = img]),
               !.links = IF target = "" THEN @
                         ELSE LinkNew(@, Link(name, "Color", target, "Base Color"))],
           "add_node")

(* ------------------- material class and enable-all --------------------- *)

\* settings.material_class = c from the panel: the property has no update
\* callback, and the stored index of material_subclass stays as it is
UserSetClass(c) ==
    /\ Idle
    /\ c # settings[Active].material_class
    /\ settings' = [settings EXCEPT ![Active].material_class = c]
    /\ before' = settings'
    /\ last' = Step("set_class", Active, "")
    /\ steps' = steps + 1
    /\ UNCHANGED <<graph, objects, files, export_dir, run, call, suppressed, updating, pc, cur, at, todo, found, depth,
                   refused, blenrose_mat_index>>

\* settings.material_subclass = identifier from the panel: the host accepts an
\* identifier of the current items and stores its index
UserSetSubclass(identifier) ==
    /\ Idle
    /\ ItemIndex(MaterialSubclassItems(settings[Active]), identifier) >= 0
    /\ settings' = [settings EXCEPT ![Active].material_subclass =
                        ItemIndex(MaterialSubclassItems(settings[Active]), identifier)]
    /\ before' = settings'
    /\ last' = Step("set_subclass", Active, "")
    /\ steps' = steps + 1
    /\ UNCHANGED <<graph, objects, files, export_dir, run, call, suppressed, updating, pc, cur, at, todo, found, depth,
                   refused, blenrose_mat_index>>

\* `let x = v in F(x)` with v evaluated once
Bind(v, F(_)) == CHOOSE out \in {F(x) : x \in {v}} : TRUE

RECURSIVE FillAll(_, _, _, _, _, _)
\* the loop of _auto_fill_textures_from_node_tree run to its end
FillAll(m, s, g, entries, sup, items) ==
    IF entries = <<>> THEN [settings |-> s, graph |-> g]
    ELSE Bind(FillEntry(m, s, g, Head(entries), FALSE, sup, items),
              LAMBDA r : FillAll(m, r.settings, r.graph, Tail(entries), sup, items))

\* _auto_fill_textures_from_node_tree(settings) run to its end without an error
AutoFillTexturesFromNodeTree(m, s, g, sup, guess, items) ==
    Bind(DetectTexturesFromNodeTree(g, guess),
         LAMBDA detected : FillAll(m, s, g, detected, FillSuppress(sup, m), items))

\* _update_enabled run to its end without an error
UpdateEnabled(m, s, g, sup, guess, items) ==
    IF s.enabled
    THEN Bind(IF g.use_nodes /\ g.has_tree
              THEN AutoFillTexturesFromNodeTree(m, s, g, sup, guess, items)
              ELSE [settings |-> s, graph |-> g],
              LAMBDA r : [settings |-> r.settings,
                          graph |-> BuildTree(r.settings, r.graph, items)])
    ELSE [settings |-> s, graph |-> RemoveManaged(g)]

\* the defaults BLENROSE_OT_enable_all_and_prepare_export.execute writes
\* before it enables the material
EnableAllDefaults(s) ==
    LET s2 == [s EXCEPT !.material_class = "ENVIRONMENT"]
    IN  IF "ENVIRONMENT" \in DOMAIN MaterialSubclasses
        THEN [s2 EXCEPT !.material_subclass =
                            ItemIndex(MaterialSubclassItems(s2), "DEFAULT")]
        ELSE s2

\* one iteration of BLENROSE_OT_enable_all_and_prepare_export.execute
EnableAllMaterial(m, s, g, sup, guess, items) ==
    IF s.enabled THEN [settings |-> s, graph |-> g]
    ELSE Bind(IF g.use_nodes /\ g.has_tree
              THEN AutoFillTexturesFromNodeTree(m, s, g, sup, guess, items)
              ELSE [settings |-> s, graph |-> g],
              LAMBDA r : UpdateEnabled(m, [EnableAllDefaults(r.settings)
                                              EXCEPT !.enabled = TRUE],
                                       r.graph, sup, guess, items))

\* BLENROSE_OT_enable_all_and_prepare_export.execute over bpy.data.materials
EnableAll ==
    /\ Idle
    /\ Mats # {}
    /\ \E r \in {[i \in DOMAIN MatOrder |->
                      EnableAllMaterial(MatOrder[i], settings[MatOrder[i]],
                                        graph[MatOrder[i]], suppressed,
                                        Guess(MatOrder[i]), Items)]} :
          /\ settings' = [m \in Mats |-> r[ItemIndex(MatOrder, m) + 1].settings]
          /\ graph' = [m \in Mats |-> r[ItemIndex(MatOrder, m) + 1].graph]
    /\ before' = settings'
    /\ last' = Step("enable_all", 0, "")
    /\ steps' = steps + 1
    /\ UNCHANGED <<objects, files, export_dir, run, call, suppressed, updating, pc, cur, at, todo, found, depth, refused,
                   blenrose_mat_index>>

(* ----------------------------- bulk export ----------------------------- *)

\* the faces of one material slot of a mesh (NoMaterial: faces without one)
Part(material, box) == [material |-> material, box |-> box]

\* a mesh object of an exported scene; `piece` counts the objects a
\* separation made of it (0: the object itself)
ExportMesh(name, visible, parts) ==
    [type |-> "MESH", name |-> name, visible |-> visible, parts |-> parts, piece |-> 0,
     material_slots |-> {parts[i].material : i \in DOMAIN parts} \ {NoMaterial},
     uv_layers |-> <<UvLayer("LM", FALSE), UvLayer("UVMap", TRUE)>>, active |-> 1]

Spline(type, points, bezier_points, cyclic) ==
    [type |-> type, points |-> points, bezier_points |-> bezier_points,
     use_cyclic_u |-> cyclic]

Curve(name, visible, splines) ==
    [type |-> "CURVE", name |-> name, visible |-> visible, splines |-> splines,
     material_slots |-> {}, uv_layers |-> <<>>, active |-> 0]

\* splines the modelled scenes draw their curve from (world-space points)
SplineChoices ==
    { Spline("POLY", << <<0, 0, 0>>, <<3, 1, 1>> >>, <<>>, FALSE),
      Spline("BEZIER", <<>>, << <<3, 0, 0>>, <<3, 1, 0>> >>, TRUE),
      Spline("NURBS", << <<4, 1, 1>>, <<5, 1, 1>> >>, <<>>, FALSE),
      Spline("POLY", << <<7, 7, 7>>, <<8, 8, 8>> >>, <<>>, FALSE),
      Spline("POLY", << <<0, 0, 0>> >>, <<>>, FALSE) }

\* the scenes the export is run on
ExportScenes(spline) ==
    { << ExportMesh("Cube", TRUE,
             << Part(1, Box(<<0, 0, 0>>, <<1, 1, 1>>)),
                Part(2, Box(<<2, 0, 0>>, <<4, 1, 1>>)) >>),
         ExportMesh("Plane", TRUE, << Part(NoMaterial, Box(<<1, 0, 0>>, <<3, 2, 0>>)) >>),
         Curve("Path", TRUE, << spline >>) >>,
      << ExportMesh("Floor", TRUE, << Part(2, Box(<<0, 0, 0>>, <<4, 4, 0>>)) >>),
         ExportMesh("Pillar", TRUE, << Part(1, Box(<<3, 0, 0>>, <<3, 1, 2>>)) >>),
         ExportMesh("Hidden", FALSE, << Part(1, Box(<<0, 0, 0>>, <<9, 9, 9>>)) >>),
         ExportMesh("Post", TRUE, << Part(1, Box(<<1, 0, 0>>, <<1, 0, 2>>)) >>),
         Curve("Rail", TRUE, << spline, Spline("OTHER", <<>>, <<>>, FALSE) >>),
         Curve("Ghost", FALSE, << spline >>) >>,
      << ExportMesh("Hidden", FALSE, << Part(1, Box(<<0, 0, 0>>, <<1, 1, 1>>)) >>),
         Curve("Path", TRUE, << spline >>) >>,
      << Curve("Path", TRUE, << spline >>) >> }

\* file names an earlier export may have left in the directory
OldFiles == { {}, {GlbPath(BaseName(1))} }

\* exported_materials[name] = data on an insertion-ordered dict
DictSet(dict, name, data) ==
    IF \E k \in DOMAIN dict : dict[k].name = name
    THEN [k \in DOMAIN dict |->
             IF dict[k].name = name THEN [name |-> name, data |-> data] ELSE dict[k]]
    ELSE Append(dict, [name |-> name, data |-> data])

\* the document entry without the splines of the partition
MatDataNoSplines(m, s, form, items, assigned_splines) ==
    [data |-> ExtractBlenroseMaterialData(s, form, items), splines |-> <<>>]

\* the document entry of an enabled material: its data and assigned splines
MatData(m, s, form, items, assigned_splines) ==
    [data |-> ExtractBlenroseMaterialData(s, form, items), splines |-> assigned_splines]

\* BLENROSE_OT_bulk_export.execute up to the export loop: the scene is
\* partitioned (multi-material meshes are separated) and the splines are
\* assigned; `form` and `reversed` are the host's choices
ExportBegin ==
    /\ Idle
    /\ run.pc # "export"
    /\ \E i \in DOMAIN objects : objects[i].type = "MESH"
    /\ \E form \in EnumForms, reversed \in BOOLEAN :
          \E groups \in {MaterialGroups(objects, 1, <<>>, reversed)} :
          \E bboxes \in {MaterialGroupBboxes(groups)} :
          \E splines \in {ExtractSplinesFromScene(objects)} :
             /\ run' = [NoRun EXCEPT
                           !.pc = "export", !.form = form, !.groups = groups,
                           !.bboxes = bboxes, !.all_splines = splines,
                           !.material_splines = MaterialSplines(groups, bboxes, splines),
                           !.i = 1]
             /\ objects' = SceneAfterSplit(objects, 1, reversed)
    /\ export_dir' = TRUE
    /\ steps' = steps + 1
    /\ last' = Step("export", 0, "begin")
    /\ UNCHANGED <<call, settings, graph, files, suppressed, updating, pc, cur, at, todo, found,
                   before, depth, refused, blenrose_mat_index>>

\* BLENROSE_OT_bulk_export.execute on a scene without mesh objects
ExportCancel ==
    /\ Idle
    /\ run.pc # "export"
    /\ ~ \E i \in DOMAIN objects : objects[i].type = "MESH"
    /\ run' = [NoRun EXCEPT !.pc = "cancelled"]
    /\ export_dir' = TRUE
    /\ steps' = steps + 1
    /\ last' = Step("export", 0, "cancelled")
    /\ UNCHANGED <<call, settings, graph, objects, files, suppressed, updating, pc, cur, at, todo,
                   found, before, depth, refused, blenrose_mat_index>>

\* what the external exporter does with one call: it writes the file, or it
\* raises, having left a file behind or not
ExporterOutcomes == {"ok", "raise", "raise_partial"}

\* the counters with a raise of the exporter left uncounted
AfterExporterUncounted(r, outcome, objs) ==
    [exported_objects |-> IF outcome = "ok" THEN r.exported_objects + Len(objs)
                          ELSE r.exported_objects,
     failed |-> r.failed]

\* the try/except around the exporter call: the objects of the partition are
\* counted on success, the failure is counted when the call raises
AfterExporter(r, outcome, objs) ==
    [exported_objects |-> IF outcome = "ok" THEN r.exported_objects + Len(objs)
                          ELSE r.exported_objects,
     failed |-> IF outcome = "ok" THEN r.failed ELSE r.failed + 1]

\* one iteration of the export loop
ExportPartition ==
    /\ run.pc = "export"
    /\ run.i <= Len(run.groups)
    /\ \E outcome \in ExporterOutcomes :
          LET material == run.groups[run.i].key
              objs == run.groups[run.i].objects
              safe_name == MakeUnique(BaseName(material), BaseName(material), 1, files)
              glb_path == GlbPath(safe_name)
              documented == material # NoMaterial /\ settings[material].enabled
          IN  /\ run' = [run EXCEPT
                    !.i = @ + 1,
                    !.exported_materials =
                        IF documented
                        THEN DictSet(@, MaterialName[material],
                                     MatData(material, settings[material], run.form, Items,
                                             run.material_splines[run.i]))
                        ELSE @,
                    !.paths = Append(@, glb_path),
                    !.attempted = Append(@, material),
                    !.raised = Append(@, outcome # "ok"),
                    !.exported_objects = AfterExporter(run, outcome, objs).exported_objects,
                    !.failed = AfterExporter(run, outcome, objs).failed]
              /\ files' = IF outcome = "raise" THEN files ELSE files \cup {glb_path}
    /\ last' = Step("export", run.groups[run.i].key, "partition")
    /\ UNCHANGED <<call, export_dir, settings, graph, objects, suppressed, updating, pc, cur, at, todo, found,
                   before, depth, refused, blenrose_mat_index, steps>>

\* the end of BLENROSE_OT_bulk_export.execute: the material document is
\* written when it has an entry (the write may fail and is then reported)
ExportFinish ==
    /\ run.pc = "export"
    /\ run.i > Len(run.groups)
    /\ \E json \in IF run.exported_materials = <<>> THEN {"none"}
                    ELSE {"written", "failed"} :
          run' = [run EXCEPT !.pc = "finished", !.json = json]
    /\ last' = Step("export", 0, "finished")
    /\ UNCHANGED <<call, export_dir, settings, graph, objects, files, suppressed, updating, pc, cur, at, todo,
                   found, before, depth, refused, blenrose_mat_index, steps>>

(* --------------------------- specifications ---------------------------- *)

\* the enable handler's continuation steps
EnablePass == FillWrite \/ FillEnd \/ FillRaise \/ EnableBuild

\* values the modelled user types into the scalar fields (hundredths)
ScalarInputs ==
    [detail_normal_uv_scale |-> {DefaultDetailScale, 400},
     macro_overlay_opacity |-> {DefaultMacroOpacity, 50},
     macro_overlay_uv_scale |-> {DefaultMacroScale, 60}]

\* nodes the modelled user deletes, and links the modelled user cuts
DamageNodes == {"BR_BSDF", "BR_MixShader", "BR_Emission", "BR_LightmapTex", "BR_MacroMix"}

DamageLinks == {LightmapEmissionLink}

\* the synchronizer under settings writes and external graph damage
NextSync ==
    \/ \E c \in {"diffuse", "detail", "macro_overlay"}, img \in {NoImage, 1} :
          UserSetTex(c, img)
    \/ \E c \in {"diffuse", "detail"}, idx \in 0..1 : UserSetUv(c, idx)
    \/ \E f \in DOMAIN ScalarInputs : \E v \in ScalarInputs[f] : UserSetScalar(f, v)
    \/ \E idx \in 0..(Len(MatOrder) - 1) : SelectMaterial(idx)
    \/ Enable
    \/ EnablePass
    \/ Disable
    \/ \E name \in DamageNodes : UserDeleteNode(name)
    \/ \E k \in DamageLinks : UserRemoveLink(k)
    \/ UserLinkFac("BR_DiffuseTex")
    \/ UserAddImageNode("Plain", 1, "")

SpecSync == Init /\ [][NextSync]_vars

\* the detection passes: enable-time fill, explicit action, periodic hook
NextDetect ==
    \/ \E img \in {NoImage, 2} : UserSetTex("diffuse", img)
    \/ \E idx \in 0..(Len(MatOrder) - 1) : SelectMaterial(idx)
    \/ Enable
    \/ EnablePass
    \/ Disable
    \/ AutoDetect
    \/ DetectWrite
    \/ DetectEnd
    \/ HookEnter
    \/ HookRefuse
    \/ HookNext
    \/ HookWrite
    \/ HookExit
    \/ HookRaise
    \/ UserDeleteNode("BR_DiffuseUV")
    \/ \E name \in {"Diffuse_Color", "Noise_Mask"}, target \in {"", "BR_BSDF"} :
          UserAddImageNode(name, 2, target)

SpecDetect == Init /\ [][NextDetect]_vars

\* material classification from the panel and the enable-all operator
NextClass ==
    \/ \E c \in Range0(MaterialClassItems) : UserSetClass(c)
    \/ \E identifier \in {"DEFAULT", "TRANSPARENT", "DIFFUSE", "DECAL"} :
          UserSetSubclass(identifier)
    \/ \E idx \in 0..(Len(MatOrder) - 1) : SelectMaterial(idx)
    \/ EnableAll
    \/ Disable

SpecClass == Init /\ [][NextClass]_vars

\* the state an export is started from: a scene, the files of an earlier
\* export, and the materials either untouched or all enabled (the state
\* BLENROSE_OT_enable_all_and_prepare_export leaves them in)
InitExport ==
    /\ \E spline \in SplineChoices : objects \in ExportScenes(spline)
    /\ files \in OldFiles
    /\ run = NoRun
    /\ call = NoCall
    /\ export_dir = TRUE
    /\ \E enabled \in {{}, {1}, Mats} :
          \E r \in {[m \in Mats |->
                        IF m \in enabled
                        THEN EnableAllMaterial(m, DefaultSettings,
                                               IF m = 1 THEN Authored ELSE NoTree, {},
                                               GuessActiveUv(m, objects),
                                               UvChannelItems(objects))
                        ELSE [settings |-> DefaultSettings,
                              graph |-> IF m = 1 THEN Authored ELSE NoTree]]} :
             /\ settings = [m \in Mats |-> r[m].settings]
             /\ graph = [m \in Mats |-> r[m].graph]
    /\ suppressed = {}
    /\ updating = FALSE
    /\ pc = "idle"
    /\ cur = 0
    /\ at = 0
    /\ todo = <<>>
    /\ found = <<>>
    /\ before = settings
    /\ depth = 0
    /\ refused = 0
    /\ blenrose_mat_index = 0
    /\ steps = 0
    /\ last = Step("init", 0, "")

\* one bulk export into the directory, after the user has changed the active
\* material's class and subclass; the operator runs to its end in one call
NextExport ==
    \/ /\ run.pc = "none"
       /\ UserSetClass("ENVIRONMENTPARK")
    \/ /\ run.pc = "none"
       /\ UserSetSubclass("TRANSPARENT")
    \/ /\ run.pc = "none"
       /\ ExportBegin
    \/ /\ run.pc = "none"
       /\ ExportCancel
    \/ ExportPartition
    \/ ExportFinish

SpecExport == InitExport /\ [][NextExport]_vars

\* a graph the detector is run on: a principled surface, an emission shader
\* and a normal-map node, with the image nodes of `specs` wired as they say
ScanGraph(specs) ==
    [use_nodes |-> TRUE, has_tree |-> TRUE,
     nodes |-> << Node("Principled BSDF", "BSDF_PRINCIPLED", ""),
                  Node("Material Output", "OUTPUT_MATERIAL", ""),
                  Node("Emission", "EMISSION", ""),
                  Node("Normal Map", "NORMAL_MAP", "") >>
               \o [i \in DOMAIN specs |->
                      [Node(specs[i].name, "TEX_IMAGE", "") EXCEPT !.image = specs[i].image]],
     links |-> {Link("Principled BSDF", "BSDF", "Material Output", "Surface")}
               \cup UNION {{Link(specs[i].name, IF t[2] = "Alpha" THEN "Alpha" ELSE "Color",
                                 t[1], t[2]) : t \in specs[i].targets} :
                               i \in DOMAIN specs}]

\* the wirings of an image node the scanned graphs are drawn from
ScanWirings ==
    { {},
      {<<"Principled BSDF", "Base Color">>},
      {<<"Emission", "Color">>},
      {<<"Normal Map", "Color">>},
      {<<"Principled BSDF", "Alpha">>},
      {<<"Principled BSDF", "Base Color">>, <<"Emission", "Color">>},
      {<<"Principled BSDF", "Base Color">>, <<"Principled BSDF", "Alpha">>,
       <<"Principled BSDF", "Specular Tint">>} }

ScanNames == {"Diffuse_Color", "LM_Bake", "Noise_Mask", "Decal_Noise", "Plain"}

\* one or two image nodes with distinct names; an input socket takes one link
ScanSpecs ==
    LET one == {[name |-> n, image |-> 1, targets |-> w] : n \in ScanNames, w \in ScanWirings}
        two == {[name |-> n, image |-> img, targets |-> w] :
                   n \in {"Diffuse_Color", "LM_Bake", "Plain"}, img \in {NoImage, 2},
                   w \in {{}, {<<"Emission", "Color">>}, {<<"Normal Map", "Color">>}}}
    IN  {<<a>> : a \in one}
        \cup {p \in one \X two : /\ p[1].name # p[2].name
                                  /\ p[1].targets \cap p[2].targets = {}}

\* the detector's inputs: the active material carries one of the scanned graphs
InitScan ==
    /\ settings = [m \in Mats |-> DefaultSettings]
    /\ \E specs \in ScanSpecs : graph = [m \in Mats |-> IF m = 1 THEN ScanGraph(specs) ELSE NoTree]
    /\ objects = SceneObjects
    /\ files = {}
    /\ run = NoRun
    /\ call = NoCall
    /\ export_dir = TRUE
    /\ suppressed = {}
    /\ updating = FALSE
    /\ pc = "idle"
    /\ cur = 0
    /\ at = 0
    /\ todo = <<>>
    /\ found = <<>>
    /\ before = settings
    /\ depth = 0
    /\ refused = 0
    /\ blenrose_mat_index = 0
    /\ steps = 0
    /\ last = Step("init", 0, "")

\* detection as the enable handler and the auto-detect operator run it
NextScan ==
    \/ Enable
    \/ EnablePass
    \/ AutoDetect
    \/ DetectWrite
    \/ DetectEnd

SpecScan == InitScan /\ [][NextScan]_vars

\* settings records with all ten channels populated: the images, the UV
\* choices and the four scalars vary (hundredths)
RoundRecords ==
    {[DefaultSettings EXCEPT
         !.tex = [c \in Channels |-> IF c \in packed THEN 2 ELSE 1],
         !.uv = [c \in Channels |-> IF c \in second THEN 1 ELSE 0],
         !.detail_normal_uv_scale = sc[1],
         !.macro_overlay_opacity = sc[2],
         !.macro_overlay_uv_scale = sc[3],
         !.embedded_decal = sc[4]] :
        packed \in {{}, {"lightmap", "noise"}},
        second \in {{}, {"lightmap"}, Channels},
        sc \in {DefaultDetailScale, 250} \X {DefaultMacroOpacity, 0}
                  \X {DefaultMacroScale, 1000} \X {DefaultEmbeddedDecal, 50}}

\* the scene of ExportScenes with the two-material cube
RoundScene ==
    CHOOSE sc \in ExportScenes(CHOOSE sp \in SplineChoices : sp.type = "BEZIER") :
        sc[1].name = "Cube"

\* a populated record on a material that is not enabled yet and has no graph
InitRound ==
    /\ \E r \in RoundRecords : settings = [m \in Mats |-> IF m = 1 THEN r ELSE DefaultSettings]
    /\ graph = [m \in Mats |-> NoTree]
    /\ objects = RoundScene
    /\ files = {}
    /\ run = NoRun
    /\ call = NoCall
    /\ export_dir = TRUE
    /\ suppressed = {}
    /\ updating = FALSE
    /\ pc = "idle"
    /\ cur = 0
    /\ at = 0
    /\ todo = <<>>
    /\ found = <<>>
    /\ before = settings
    /\ depth = 0
    /\ refused = 0
    /\ blenrose_mat_index = 0
    /\ steps = 0
    /\ last = Step("init", 0, "")

\* the material is enabled (its graph is rebuilt from the record), then the
\* scene is exported
NextRound ==
    \/ /\ ~settings[Active].enabled
       /\ Enable
    \/ EnableBuild
    \/ /\ run.pc = "none"
       /\ settings[Active].enabled
       /\ ExportBegin
    \/ ExportPartition
    \/ ExportFinish

SpecRound == InitRound /\ [][NextRound]_vars

(* ----------------------------- properties ------------------------------ *)

\* the nodes outside the reserved namespace, in graph order
NonManaged(nodes) == SelectSeq(nodes, LAMBDA n : ~IsManagedName(n.name))

\* names the rebuild gives to nodes it creates outside the reserved namespace
RebuildPlainNames == {"Material Output", "Separate RGB", "Normal Map"}

\* the graph synchronize leaves for material m under its current settings
Synced(m) == UpdateAllBlenroseNodes(m, settings[m], graph[m], suppressed, Items)

\* one of the three load-bearing nodes is absent from the node list
LoadBearingAbsent(nodes) ==
    \E n \in {"BR_BSDF", "BR_MixShader", "BR_Emission"} : n \notin NodeNames(nodes)

(* C1: in every reachable state, for every material outside the suppression
   set, running synchronize twice in a row with the settings unchanged leaves
   after the second run exactly the nodes and links the first run left; no
   node name occurs twice and the emission node's colour input carries at most
   one link. *)
ThmC1 ==
    \A m \in Mats : m \notin suppressed =>
        LET g1 == Synced(m)
            g2 == UpdateAllBlenroseNodes(m, settings[m], g1, suppressed, Items)
        IN  /\ g2.nodes = g1.nodes
            /\ g2.links = g1.links
            /\ Cardinality(NodeNames(g2.nodes)) = Len(g2.nodes)
            /\ Cardinality({k \in g2.links :
                               k.to_node = "BR_Emission" /\ k.to_socket = "Color"}) <= 1

\* a settings write has just rebuilt the graph; the next runs take the patch path
WitC1 ==
    /\ last.op = "write" /\ last.path = "rebuild"
    /\ last.mat \notin suppressed
    /\ SyncPath(last.mat, graph[last.mat], suppressed) = "patch"
    /\ HasNode(graph[last.mat].nodes, "BR_LightmapTex")

(* C2 as stated: every settings write leaves the nodes outside the reserved
   namespace exactly as they were, on the patch path and the rebuild path
   alike. *)
CexC2 ==
    [][last'.op = "write" =>
          NonManaged(graph'[last'.mat].nodes) = NonManaged(graph[last'.mat].nodes)]_vars

(* C2 amended: on the patch path synchronize adds, removes and modifies no
   node outside the reserved namespace; on the rebuild path it removes every
   node the graph held, user-authored ones included, so that no node survives
   under a name other than those the rebuild itself creates. *)
ThmC2 ==
    \A m \in Mats : m \notin suppressed =>
        LET g == graph[m]
            g1 == Synced(m)
            path == SyncPath(m, g, suppressed)
        IN  /\ path = "patch" => NonManaged(g1.nodes) = NonManaged(g.nodes)
            /\ path = "rebuild" =>
                  \A n \in NodeNames(g.nodes) :
                      (~IsManagedName(n) /\ n \notin RebuildPlainNames)
                          => n \notin NodeNames(g1.nodes)

\* a settings write took the patch path on a graph holding a user-authored node
WitC2 ==
    /\ last.op = "write" /\ last.path = "patch"
    /\ HasNode(graph[last.mat].nodes, "Plain")

(* C3: disabling a material removes every node whose name starts with BR_ and
   leaves the nodes whose name does not start with BR_ present and unchanged,
   in every reachable graph and after every disable step. *)
ThmC3 ==
    /\ \A m \in Mats :
          LET g1 == RemoveManaged(graph[m])
          IN  /\ \A n \in NodeNames(g1.nodes) : ~IsManagedName(n)
              /\ NonManaged(g1.nodes) = NonManaged(graph[m].nodes)
    /\ last.op = "disable" =>
          \A n \in NodeNames(graph[last.mat].nodes) : ~IsManagedName(n)

\* an enabled material with a managed graph has just been disabled, and the
\* nodes outside the namespace are still there
WitC3 ==
    /\ last.op = "disable" /\ last.path = "was_enabled"
    /\ HasNode(graph[last.mat].nodes, "Separate RGB")
    /\ ~HasNode(graph[last.mat].nodes, "BR_BSDF")

(* C4: while a material is in the suppression set, a write of any texture or
   UV field of its settings leaves its graph exactly as it was, and every
   write the fill pass makes finds the synchronizer on its suppressed path. *)
ThmC4 ==
    /\ \A m \in suppressed :
          /\ \A c \in Channels, img \in Images \cup {NoImage} :
                UpdateAllBlenroseNodes(m, [settings[m] EXCEPT !.tex[c] = img],
                                       graph[m], suppressed, Items) = graph[m]
          /\ \A c \in Channels, idx \in 0..(Len(Items) - 1) :
                UpdateAllBlenroseNodes(m, [settings[m] EXCEPT !.uv[c] = idx],
                                       graph[m], suppressed, Items) = graph[m]
    /\ last.op = "fill_write" => last.path = "suppressed"

\* the fill pass has written a settings field of a suppressed material
WitC4 ==
    /\ last.op = "fill_write"
    /\ last.mat \in suppressed
    /\ settings[last.mat] # before[last.mat]

(* C5 as stated: during every settings write made by the enable-time fill, by
   the explicit auto-detect action and by the periodic hook, the material
   written is in the suppression set. *)
CexC5 ==
    (\/ last.op \in {"fill_write", "detect_write"}
     \/ last.op = "hook_write" /\ last.path # "same")
        => last.mat \in suppressed

(* C5 amended: the suppression set holds exactly the material of a running
   enable-time fill pass; it is empty once that pass has ended, normally or by
   an error, and it is empty throughout the explicit auto-detect action and
   the periodic hook. *)
ThmC5 == suppressed = (IF pc = "fill" THEN {cur} ELSE {})

\* a fill pass has ended by an error and the set is empty again
WitC5 == last.op = "fill_raise" /\ suppressed = {} /\ pc = "idle"

(* C6: the busy flag is set exactly while a hook pass is in progress, at most
   one pass is ever in progress, the flag is clear after the pass has ended by
   exit or by an error, and an invocation refused because the flag was set
   changes no settings record and no graph and leaves the pass as it was. *)
ThmC6 ==
    /\ [](/\ updating <=> pc = "hook"
          /\ depth = (IF updating THEN 1 ELSE 0)
          /\ last.op \in {"hook_exit", "hook_raise"} => ~updating)
    /\ [][last'.op = "hook_refused" =>
             UNCHANGED <<settings, graph, suppressed, updating, pc, cur, at, todo>>]_vars

\* the hook was invoked during its own pass, after a write of that pass
WitC6 ==
    /\ last.op = "hook_refused"
    /\ updating
    /\ settings # before

(* C7 as stated: once the enable handler has returned, the rebuild has been
   performed: the three load-bearing nodes exist. *)
CexC7 ==
    last.op \in {"enable_build", "fill_raise"} =>
        ~LoadBearingAbsent(graph[last.mat].nodes)

(* C7 amended: the fill pass has ended, and the material has left the
   suppression set, before the rebuild starts; a fill pass that ends without
   an error is always followed by the rebuild, whatever detection found; and
   the rebuilt graph carries the settings as they stand after the fill pass:
   every managed image node holds its channel's texture and the optional
   branches exist exactly for the populated optional textures. *)
ThmC7 ==
    /\ pc = "build" => todo = <<>> /\ cur \notin suppressed /\ settings[cur].enabled
    /\ last.op = "fill_end" =>
          /\ pc = "build"
          /\ \A i \in DOMAIN found : settings[cur].tex[found[i].channel] # NoImage
    /\ last.op = "enable_build" =>
          LET g == graph[last.mat]
              s == settings[last.mat]
          IN  /\ ~LoadBearingAbsent(g.nodes)
              /\ \A n \in {"BR_DiffuseTex", "BR_NormalTex", "BR_SpecularTex",
                           "BR_LightmapTex"} : HasNode(g.nodes, n)
              /\ \A k \in DOMAIN TextureMappings :
                    HasNode(g.nodes, TextureMappings[k][1]) =>
                        GetNode(g.nodes, TextureMappings[k][1]).image
                            = s.tex[TextureMappings[k][2]]
              /\ HasNode(g.nodes, "BR_DetailTex") <=> s.tex["detail"] # NoImage
              /\ HasNode(g.nodes, "BR_MacroOverlayTex") <=> s.tex["macro_overlay"] # NoImage

\* the rebuild has run after a fill pass that populated the lightmap texture
WitC7 ==
    /\ last.op = "enable_build"
    /\ settings[last.mat].tex["lightmap"] = 2
    /\ HasNode(graph[last.mat].nodes, "BR_LightmapTex")
    /\ GetNode(graph[last.mat].nodes, "BR_LightmapTex").image = 2

(* C8 as stated, for the channels whose texture is populated when the
   enable-time fill begins: during and after the fill pass the channel's
   texture and its UV source are what they were before it. *)
CexC8 ==
    pc \in {"fill", "build"} =>
        \A c \in Channels :
            before[cur].tex[c] # NoImage =>
                /\ settings[cur].tex[c] = before[cur].tex[c]
                /\ settings[cur].uv[c] = before[cur].uv[c]

(* C9 as stated: once the explicit action or the periodic hook has written
   every entry detection returned for a material, each detected channel's
   texture is the detected image and its UV source is the detected UV-map
   name, when that name is one of the UV options. *)
CexC9 ==
    (pc \in {"detect", "hook"} /\ cur # 0 /\ todo = <<>>) =>
        \A i \in DOMAIN found :
            LET e == found[i] IN
            /\ settings[cur].tex[e.channel] = e.image
            /\ UvIndexOf(e.uv_map_name, Items) >= 0 =>
                  UvName(settings[cur], e.channel, Items) = e.uv_map_name

(* C9 amended: once the explicit action has written every detected entry of
   its material, each detected channel has the detected image and, when the
   detected UV-map name is one of the UV options, that UV source; once the
   periodic hook has written every detected entry of a material, each
   detected channel has the detected image, and the hook changes no UV source
   of any material. *)
ThmC9 ==
    /\ (pc = "detect" /\ todo = <<>>) =>
          \A i \in DOMAIN found :
              LET e == found[i] IN
              /\ settings[cur].tex[e.channel] = e.image
              /\ UvIndexOf(e.uv_map_name, Items) >= 0 =>
                    UvName(settings[cur], e.channel, Items) = e.uv_map_name
    /\ (pc = "hook" /\ cur # 0 /\ todo = <<>>) =>
          \A i \in DOMAIN found : settings[cur].tex[found[i].channel] = found[i].image
    /\ pc = "hook" => \A m \in Mats : settings[m].uv = before[m].uv

\* the explicit action has written every detected entry and changed the settings
WitC9 ==
    /\ pc = "detect" /\ todo = <<>> /\ found # <<>>
    /\ settings[cur] # before[cur]

(* C10: for every material outside the suppression set, after synchronize the
   three load-bearing nodes exist; when one of them was absent on entry the
   graph left is the fully rebuilt one, and when none was absent the node list
   keeps its names and types in order (no node is created or removed). *)
ThmC10 ==
    \A m \in Mats : m \notin suppressed =>
        LET g == UseNodes(graph[m])
            g1 == Synced(m)
        IN  /\ ~LoadBearingAbsent(g1.nodes)
            /\ LoadBearingAbsent(g.nodes) =>
                  /\ g1.nodes = BuildNodesBase(settings[m], Items)
                                    \o BuildNodesDetail(settings[m], Items)
                                    \o BuildNodesMacro(settings[m], Items)
                  /\ \A n \in NodeNames(g.nodes) :
                        (~IsManagedName(n) /\ n \notin RebuildPlainNames)
                            => n \notin NodeNames(g1.nodes)
            /\ ~LoadBearingAbsent(g.nodes) =>
                  /\ Len(g1.nodes) = Len(g.nodes)
                  /\ \A i \in DOMAIN g.nodes :
                        /\ g1.nodes[i].name = g.nodes[i].name
                        /\ g1.nodes[i].type = g.nodes[i].type

\* a settings write on an enabled material healed a damaged graph by a rebuild
WitC10 ==
    /\ last.op = "write" /\ last.path = "rebuild"
    /\ settings[last.mat].enabled
    /\ ~LoadBearingAbsent(graph[last.mat].nodes)

\* the links that end in the emission node's colour input
EmissionFeeds(links) == {k \in links : k.to_node = "BR_Emission" /\ k.to_socket = "Color"}

(* C11 as stated: for every material outside the suppression set, after
   synchronize, whenever BR_Emission is present its Color input carries
   exactly one link, the one from the Color output of BR_LightmapTex. *)
CexC11 ==
    \A m \in Mats : m \notin suppressed =>
        LET g1 == Synced(m)
        IN  HasNode(g1.nodes, "BR_Emission") =>
                EmissionFeeds(g1.links) = {LightmapEmissionLink}

(* C11 amended: for every material outside the suppression set, after
   synchronize, whenever BR_Emission and BR_LightmapTex are both present the
   emission node's Color input carries exactly one link, the one from the
   Color output of BR_LightmapTex, whether or not a lightmap image is set;
   when BR_LightmapTex was removed and the three load-bearing nodes remain,
   synchronize does not recreate it and the link is not established. *)
ThmC11 ==
    \A m \in Mats : m \notin suppressed =>
        LET g1 == Synced(m)
        IN  /\ (HasNode(g1.nodes, "BR_Emission") /\ HasNode(g1.nodes, "BR_LightmapTex"))
                   => EmissionFeeds(g1.links) = {LightmapEmissionLink}
            /\ (HasNode(g1.nodes, "BR_Emission") /\ ~HasNode(g1.nodes, "BR_LightmapTex"))
                   => LightmapEmissionLink \notin g1.links

\* the link was cut on a material without a lightmap image, and the next
\* synchronize run puts it back
WitC11 ==
    /\ last.op = "remove_link"
    /\ last.mat \notin suppressed
    /\ settings[last.mat].tex["lightmap"] = NoImage
    /\ LightmapEmissionLink \notin graph[last.mat].links
    /\ LightmapEmissionLink \in Synced(last.mat).links

(* C12 as stated: in every reachable state and for every material, the
   material_subclass read from the settings record is a member of the
   subclass table of the record's material_class (so a write to
   material_class has reset a subclass the new table does not contain). *)
CexC12 ==
    \A m \in Mats :
        /\ settings[m].material_class \in DOMAIN MaterialSubclasses
        /\ SubclassRead(settings[m]) \in Range0(MaterialSubclasses[settings[m].material_class])

(* C13 as stated: every entry of the exported material document has
   material_name equal to lowercase(material_class) + "." +
   lowercase(material_subclass) of the same entry, and that material_subclass
   is a member of the subclass table of the entry's class, whichever stored
   subclass value (identifier or index, valid or stale) the record held. *)
CexC13 ==
    \A k \in DOMAIN run.exported_materials :
        LET entry == run.exported_materials[k].data.data
        IN  /\ entry.material_name =
                   Lower(Chars[entry.material_class]) \o <<".">>
                       \o Lower(Chars[entry.material_subclass])
            /\ entry.material_class \in DOMAIN MaterialSubclasses
            /\ entry.material_subclass \in Range0(MaterialSubclasses[entry.material_class])

\* detection has just run on graph[cur] and nothing was written since
JustDetected == last.op \in {"enable", "detect"} /\ pc \in {"fill", "detect"}

\* positions of the image-sample nodes the detector looks at
ImageNodeAt(g) ==
    {i \in DOMAIN g.nodes : g.nodes[i].type = "TEX_IMAGE" /\ g.nodes[i].image # NoImage}

\* the entries of `found` bound to node `name`
EntriesOf(name) == {k \in DOMAIN found : found[k].image_node = name}

(* C14: the detection result has at most one entry per channel; the entry of
   a channel is bound to the first image-sample node, in graph order, whose
   best-scoring channel is that channel; a later node with the same best
   channel has no entry at all (it is not given another channel). *)
ThmC14 ==
    JustDetected =>
        LET g == graph[cur]
            best(i) == BestMatch(g, g.nodes[i])
            first(i) == \A j \in ImageNodeAt(g) : j < i => best(j) # best(i)
        IN  /\ \A j, k \in DOMAIN found : found[j].channel = found[k].channel => j = k
            /\ \A k \in DOMAIN found :
                  \E i \in ImageNodeAt(g) :
                      /\ g.nodes[i].name = found[k].image_node
                      /\ best(i) = found[k].channel
                      /\ first(i)
            /\ \A i \in ImageNodeAt(g) :
                  /\ (best(i) # "" /\ first(i)) => EntriesOf(g.nodes[i].name) # {}
                  /\ ~first(i) => EntriesOf(g.nodes[i].name) = {}

\* two image nodes share their best channel, the later one also scores on a
\* channel that no node claims, and it is left out of the result
WitC14 ==
    /\ JustDetected
    /\ \E i, j \in ImageNodeAt(graph[cur]) :
          /\ i < j
          /\ BestMatch(graph[cur], graph[cur].nodes[i]) # ""
          /\ BestMatch(graph[cur], graph[cur].nodes[i])
                 = BestMatch(graph[cur], graph[cur].nodes[j])
          /\ \E e \in DOMAIN ChannelDetection :
                /\ Score(graph[cur], graph[cur].nodes[j], ChannelDetection[e]) > 0
                /\ \A k \in DOMAIN found : found[k].channel # ChannelDetection[e].channel
          /\ EntriesOf(graph[cur].nodes[j].name) = {}
          /\ EntriesOf(graph[cur].nodes[i].name) # {}

\* keywords of a table entry found in "<name> <label>" of a node, lower-cased
KeywordHits(n, entry) ==
    {i \in DOMAIN entry.keywords :
        Contains(Lower(Chars[n.name] \o <<" ">> \o Chars[n.label]), Chars[entry.keywords[i]])}

\* the score as C15 words it: +10 per matching keyword, +20 once when some
\* output connects to a socket named in the target list, +30 once for the
\* channel's strong signal
StatedScore(g, n, entry) ==
      10 * Cardinality(KeywordHits(n, entry))
    + (IF \E k \in OutLinks(g, n) : SocketName(k.to_socket) \in Range0(entry.targets)
       THEN 20 ELSE 0)
    + (IF \E k \in OutLinks(g, n) : StrongSignal(entry.channel, g, k) THEN 30 ELSE 0)

\* the score with its multiplicities: +20 for every listed target that is a
\* connected socket name or the type of a connected node, +30 for every
\* outgoing link that shows the strong signal
CountedScore(g, n, entry) ==
      10 * Cardinality(KeywordHits(n, entry))
    + 20 * Cardinality({t \in Range0(entry.targets) :
                           \E k \in OutLinks(g, n) :
                               \/ SocketName(k.to_socket) = t
                               \/ GetNode(g.nodes, k.to_node).type = t})
    + 30 * Cardinality({k \in OutLinks(g, n) : StrongSignal(entry.channel, g, k)})

\* the channel a score picks for a node: the highest, the first in table
\* order among equals, "" when the highest is zero
Pick(Sc(_, _, _), g, n) ==
    LET top == CHOOSE e \in DOMAIN ChannelDetection :
                   \A f \in DOMAIN ChannelDetection :
                       \/ Sc(g, n, ChannelDetection[e]) > Sc(g, n, ChannelDetection[f])
                       \/ /\ Sc(g, n, ChannelDetection[e]) = Sc(g, n, ChannelDetection[f])
                          /\ e <= f
    IN  IF Sc(g, n, ChannelDetection[top]) > 0 THEN ChannelDetection[top].channel ELSE ""

\* the detection result binds every image node to the channel the score
\* picks for it: a node the score leaves unmatched has no entry, and a node
\* that is the first with its pick has the entry of that channel
ScanFollows(Sc(_, _, _)) ==
    JustDetected =>
        LET g == graph[cur] IN
        \A i \in ImageNodeAt(g) :
            LET c == Pick(Sc, g, g.nodes[i]) IN
            /\ c = "" => EntriesOf(g.nodes[i].name) = {}
            /\ \A k \in EntriesOf(g.nodes[i].name) : found[k].channel = c
            /\ (c # "" /\ \A j \in ImageNodeAt(g) : j < i => Pick(Sc, g, g.nodes[j]) # c)
                   => EntriesOf(g.nodes[i].name) # {}

(* C15 as stated: for each image-sample node the channel chosen is the one
   with the highest score, the score of a (node, channel) pair being +10 per
   matching keyword, +20 if any output of the node connects to a socket named
   in the channel's target list, and +30 for the channel's strong signal; a
   node whose best score is zero is unmatched, and among channels of equal
   score the first in table order is kept. *)
CexC15 == ScanFollows(StatedScore)

(* C15 amended: the same, with the score counted with multiplicity: +10 per
   matching keyword, +20 for every name of the channel's target list that is
   the name of a socket an output connects to (or the type of the node it
   connects to), and +30 for every outgoing link that shows the channel's
   strong signal. *)
ThmC15 == ScanFollows(CountedScore)

\* a node is bound to a channel that wins only through multiplicity: worded
\* without it, another channel would score higher
WitC15 ==
    /\ JustDetected
    /\ \E i \in ImageNodeAt(graph[cur]) :
          LET n == graph[cur].nodes[i] IN
          /\ EntriesOf(n.name) # {}
          /\ \A k \in EntriesOf(n.name) :
                /\ found[k].channel = Pick(CountedScore, graph[cur], n)
                /\ found[k].channel # Pick(StatedScore, graph[cur], n)

(* C16 as stated: when the graph holds exactly one image-sample node with an
   image, the name of that node contains a diffuse keyword, and its colour
   output feeds the Base Color input of a principled surface node, the
   detection result is exactly one entry: channel diffuse, bound to that
   node (no other channel claims it). *)
CexC16 ==
    JustDetected =>
        LET g == graph[cur] IN
        \A i \in ImageNodeAt(g) :
            ( /\ ImageNodeAt(g) = {i}
              /\ KeywordHits(g.nodes[i], ChannelDetection[1]) # {}
              /\ \E k \in OutLinks(g, g.nodes[i]) :
                    /\ k.from_socket = "Color"
                    /\ k.to_socket = "Base Color"
                    /\ GetNode(g.nodes, k.to_node).type = "BSDF_PRINCIPLED" )
            => /\ Len(found) = 1
               /\ found[1].channel = "diffuse"
               /\ found[1].image_node = g.nodes[i].name

\* the document entries of material m in the running or finished export
DocEntries(m) ==
    {k \in DOMAIN run.exported_materials : run.exported_materials[k].name = MaterialName[m]}

(* C17: for a settings record with all ten channels populated and any scalar
   values, the rebuild changes no field of the record, and the document entry
   serialized after it carries the record's four scalars and lists all ten
   channels, each with the UV source the record holds. *)
ThmC17 ==
    /\ [](\A k \in DocEntries(1) :
             LET entry == run.exported_materials[k].data.data
                 s == settings[1]
             IN  /\ entry.scalars.detail_normal_uv_scale = s.detail_normal_uv_scale
                 /\ entry.scalars.macro_overlay_opacity = s.macro_overlay_opacity
                 /\ entry.scalars.macro_overlay_uv_scale = s.macro_overlay_uv_scale
                 /\ entry.scalars.embedded_decal = s.embedded_decal
                 /\ DOMAIN entry.textures = Channels
                 /\ \A c \in Channels : entry.textures[c].uv = UvName(s, c, Items))
    /\ [][last'.op = "enable_build" => settings' = settings]_vars

\* a record with packed images, mixed UV choices and no default scalar was
\* rebuilt into a graph and then serialized
WitC17 ==
    /\ DocEntries(1) # {}
    /\ HasNode(graph[1].nodes, "BR_BSDF")
    /\ settings[1].tex["noise"] = 2
    /\ settings[1].uv["lightmap"] = 1 /\ settings[1].uv["diffuse"] = 0
    /\ settings[1].detail_normal_uv_scale # DefaultDetailScale
    /\ settings[1].macro_overlay_opacity # DefaultMacroOpacity
    /\ settings[1].macro_overlay_uv_scale # DefaultMacroScale
    /\ settings[1].embedded_decal # DefaultEmbeddedDecal
    /\ \A c \in Channels : settings[1].tex[c] # NoImage

RECURSIVE SucceededObjects(_)
\* the objects of the first k partitions whose exporter call did not raise
SucceededObjects(k) ==
    IF k = 0 THEN 0
    ELSE SucceededObjects(k - 1)
             + (IF run.raised[k] THEN 0 ELSE Len(run.groups[k].objects))

(* C18: whatever the exporter calls do, the export run attempts every
   partition exactly once, in order, and runs to its end; failed is the number
   of partitions whose exporter call raised and exported_objects is the sum of
   the object counts of the partitions whose call succeeded. *)
ThmC18 ==
    /\ run.pc \in {"export", "finished"} =>
          /\ Len(run.attempted) = run.i - 1
          /\ run.i - 1 <= Len(run.groups)
          /\ \A k \in DOMAIN run.attempted : run.attempted[k] = run.groups[k].key
          /\ \A j, k \in DOMAIN run.groups : run.groups[j].key = run.groups[k].key => j = k
          /\ run.failed = Cardinality({k \in DOMAIN run.raised : run.raised[k]})
          /\ run.exported_objects = SucceededObjects(Len(run.raised))
    /\ run.pc = "export" => ENABLED (ExportPartition \/ ExportFinish)
    /\ run.pc = "finished" => Len(run.attempted) = Len(run.groups)

\* a finished run over several partitions in which one exporter call raised
\* and a partition of two objects was exported
WitC18 ==
    /\ run.pc = "finished"
    /\ \E j, k \in DOMAIN run.groups :
          /\ run.raised[j]
          /\ ~run.raised[k]
          /\ Len(run.groups[k].objects) = 2
    /\ run.failed >= 1
    /\ run.exported_objects >= 2

(* C19 as stated: within one export run no two partitions are handed the
   same output path; in particular two partitions whose materials' cleaned
   names are equal get two distinct paths by numeric suffixing. *)
CexC19 ==
    \A j, k \in DOMAIN run.paths : j # k => run.paths[j] # run.paths[k]

\* coordinates of the modelled scenes, in either coordinate system
Coords == (0 - 10)..10

\* two boxes have a point in common: on each axis some coordinate lies in both
SharePoint(b1, b2) ==
    \A a \in 1..3 :
        \E v \in Coords : /\ b1.min[a] <= v /\ v <= b1.max[a]
                          /\ b2.min[a] <= v /\ v <= b2.max[a]

\* the partitions, by position, whose bounding box has a point in common
\* with the box around the points of spline sp
PartitionsHit(sp) ==
    {k \in DOMAIN run.groups :
        \E e \in DOMAIN run.bboxes :
            /\ run.bboxes[e].key = run.groups[k].key
            /\ SharePoint(run.bboxes[e].bbox, Span(Range0(sp.points)))}

\* how often spline sp is listed for partition k
TimesAssigned(sp, k) ==
    Cardinality({j \in DOMAIN run.material_splines[k] : run.material_splines[k][j] = sp})

(* C20: each extracted curve is assigned to at most one partition, namely the
   first partition in partition iteration order whose bounding box intersects
   the curve's bounding box on all three axes, bounds included; it is assigned
   to no partition exactly when no partition's bounding box intersects it. *)
ThmC20 ==
    run.pc \in {"export", "finished"} =>
        \A q \in DOMAIN run.all_splines :
            LET sp == run.all_splines[q]
                hits == PartitionsHit(sp)
            IN  /\ hits = {} => \A k \in DOMAIN run.groups : TimesAssigned(sp, k) = 0
                /\ hits # {} =>
                      \A k \in DOMAIN run.groups :
                          TimesAssigned(sp, k) = (IF k = SetMin(hits) THEN 1 ELSE 0)

\* a curve whose box meets two partitions' boxes, one of them only along a
\* face, and that is listed for the first of them alone
WitC20 ==
    /\ run.pc = "finished"
    /\ \E q \in DOMAIN run.all_splines :
          LET sp == run.all_splines[q] IN
          /\ Cardinality(PartitionsHit(sp)) >= 2
          /\ TimesAssigned(sp, SetMin(PartitionsHit(sp))) = 1
          /\ \E k \in PartitionsHit(sp) :
                \E e \in DOMAIN run.bboxes :
                    /\ run.bboxes[e].key = run.groups[k].key
                    /\ ~BboxIntersectsStrict(run.bboxes[e].bbox, sp.bbox)

(* --------------------- geometry helpers, called alone ------------------- *)

\* every variable but `call` at rest
AtRest ==
    /\ settings = [m \in Mats |-> DefaultSettings]
    /\ graph = [m \in Mats |-> NoTree]
    /\ objects = SceneObjects
    /\ files = {}
    /\ export_dir = TRUE
    /\ run = NoRun
    /\ suppressed = {}
    /\ updating = FALSE
    /\ pc = "idle"
    /\ cur = 0
    /\ at = 0
    /\ todo = <<>>
    /\ found = <<>>
    /\ before = settings
    /\ depth = 0
    /\ refused = 0
    /\ blenrose_mat_index = 0
    /\ steps = 0
    /\ last = Step("init", 0, "")

\* corner points: the third axis is kept to two values, enough for intervals
\* that overlap, touch and lie apart
Coord3 == (0..MaxCoord) \X (0..MaxCoord) \X (0..1)

\* the boxes a caller can hold: None, or min <= max on every axis
Boxes ==
    {NoBbox} \cup
    {Box(c[1], c[2]) : c \in {c \in Coord3 \X Coord3 : \A a \in 1..3 : c[1][a] <= c[2][a]}}

\* world-space points, among them points off the axes' diagonal and below zero
WorldPoints == Coord3 \cup {<<1, 2, 3>>, <<0 - 1, 0 - 2, 0 - 3>>}

\* a curve object of one spline with two points, stored where the host
\* stores the points of that spline type
GeometryCurves ==
    {Curve("Path", TRUE,
           <<IF type = "BEZIER" THEN Spline(type, <<>>, <<p, q>>, FALSE)
                                ELSE Spline(type, <<p, q>>, <<>>, FALSE)>>) :
        type \in {"POLY", "BEZIER", "NURBS"}, p \in WorldPoints, q \in {<<1, 2, 3>>, <<0, 2, 1>>}}

\* a mesh object of one slot
GeometryMeshes ==
    {ExportMesh("Cube", TRUE, <<Part(1, b)>>) : b \in Boxes \ {NoBbox}}

GeometryCalls ==
    {[fn |-> "bbox_for_objects", objs |-> <<o>>, done |-> FALSE] : o \in GeometryMeshes}
    \cup {[fn |-> "extract_splines", objs |-> <<o>>, done |-> FALSE] : o \in GeometryCurves}

InitGeometry ==
    /\ AtRest
    /\ \/ call \in GeometryCalls
       \/ \E b1 \in Boxes, b2 \in Boxes :
              call = [fn |-> "bbox_intersects", bbox1 |-> b1, bbox2 |-> b2, done |-> FALSE]

Return(result) ==
    /\ call' = [x \in DOMAIN call \cup {"result"} |->
                   IF x = "result" THEN result ELSE IF x = "done" THEN TRUE ELSE call[x]]
    /\ UNCHANGED <<settings, graph, objects, files, export_dir, run, suppressed, updating, pc,
                   cur, at, todo, found, before, depth, refused, blenrose_mat_index, steps,
                   last>>

CallBboxIntersects ==
    /\ call.fn = "bbox_intersects" /\ ~call.done
    /\ Return(BboxIntersects(call.bbox1, call.bbox2))

CallBboxForObjects ==
    /\ call.fn = "bbox_for_objects" /\ ~call.done
    /\ Return(CalculateBboxForObjects(call.objs))

CallExtractSplines ==
    /\ call.fn = "extract_splines" /\ ~call.done
    /\ Return(ExtractSplinesFrom(call.objs, 1))

NextGeometry == CallBboxIntersects \/ CallBboxForObjects \/ CallExtractSplines

SpecGeometry == InitGeometry /\ [][NextGeometry]_vars

\* a point lies in a box
InBox(p, b) == \A a \in 1..3 : b.min[a] <= p[a] /\ p[a] <= b.max[a]

(* C21: _bbox_intersects returns true exactly when the two boxes' intervals
   overlap on all three axes with the bounds included, that is when the boxes
   have a point in common, so boxes touching at a face, edge or corner
   intersect and boxes apart on some axis do not; the result does not depend
   on the order of the arguments and is false when either box is absent. *)
ThmC21 ==
    (call.fn = "bbox_intersects" /\ call.done) =>
        /\ call.result = (/\ call.bbox1 # NoBbox
                          /\ call.bbox2 # NoBbox
                          /\ \E p \in Coord3 : InBox(p, call.bbox1) /\ InBox(p, call.bbox2))
        /\ call.result = BboxIntersects(call.bbox2, call.bbox1)

\* the two boxes meet in one corner only, and the call has returned true
WitC21 ==
    /\ call.fn = "bbox_intersects" /\ call.done
    /\ call.bbox1 = Box(<<0, 0, 0>>, <<1, 1, 1>>)
    /\ call.bbox2 = Box(<<1, 1, 1>>, <<2, 2, 1>>)
    /\ call.result = TRUE

\* the world-space points the host stores for a spline
StoredPoints(sp) == sp.points \o sp.bezier_points

(* C22: every world-space point (x, y, z) is mapped to the target-space point
   (x, z, -y); the same remap is applied to the corners of a mesh's bounding
   box and to the points of poly, bezier and nurbs splines, so partition boxes
   and curve boxes lie in one coordinate space. *)
ThmC22 ==
    /\ (call.fn = "bbox_for_objects" /\ call.done) =>
          LET b == call.objs[1].parts[1].box
          IN  call.result = [min |-> <<b.min[1], b.min[3], 0 - b.max[2]>>,
                             max |-> <<b.max[1], b.max[3], 0 - b.min[2]>>]
    /\ (call.fn = "extract_splines" /\ call.done) =>
          LET in == StoredPoints(call.objs[1].splines[1])
          IN  /\ Len(call.result) = 1
              /\ Len(call.result[1].points) = Len(in)
              /\ \A j \in DOMAIN in :
                    call.result[1].points[j] = <<in[j][1], in[j][3], 0 - in[j][2]>>
              /\ \A j \in DOMAIN in :
                    InBox(<<in[j][1], in[j][3], 0 - in[j][2]>>, call.result[1].bbox)

\* a nurbs spline through (1, 2, 3) has been extracted with the point (1, 3, -2)
WitC22 ==
    /\ call.fn = "extract_splines" /\ call.done
    /\ call.objs[1].splines[1].type = "NURBS"
    /\ call.objs[1].splines[1].points[1] = <<1, 2, 3>>
    /\ call.result[1].points[1] = <<1, 3, 0 - 2>>

(* ------------------------ operations with nothing to do ------------------ *)

\* BLENROSE_OT_auto_detect_textures.execute on a material that is not
\* enabled: a warning and {"CANCELLED"}
AutoDetectCancel ==
    /\ Idle
    /\ ~settings[Active].enabled
    /\ steps < MaxSteps
    /\ steps' = steps + 1
    /\ last' = Step("detect", Active, "cancelled")
    /\ UNCHANGED <<settings, graph, objects, files, export_dir, run, call, suppressed,
                   updating, pc, cur, at, todo, found, before, depth, refused,
                   blenrose_mat_index>>

\* the scenes of the export, with the export directory present or not yet made
InitCancel ==
    /\ \E spline \in SplineChoices : objects \in ExportScenes(spline)
    /\ \E present \in BOOLEAN :
          /\ export_dir = present
          /\ files \in IF present THEN OldFiles ELSE {{}}
    /\ run = NoRun
    /\ call = NoCall
    /\ \E enabled \in BOOLEAN :
          \E r \in {[m \in Mats |->
                        IF enabled
                        THEN EnableAllMaterial(m, DefaultSettings,
                                               IF m = 1 THEN Authored ELSE NoTree, {},
                                               GuessActiveUv(m, objects),
                                               UvChannelItems(objects))
                        ELSE [settings |-> DefaultSettings,
                              graph |-> IF m = 1 THEN Authored ELSE NoTree]]} :
             /\ settings = [m \in Mats |-> r[m].settings]
             /\ graph = [m \in Mats |-> r[m].graph]
    /\ suppressed = {}
    /\ updating = FALSE
    /\ pc = "idle"
    /\ cur = 0
    /\ at = 0
    /\ todo = <<>>
    /\ found = <<>>
    /\ before = settings
    /\ depth = 0
    /\ refused = 0
    /\ blenrose_mat_index = 0
    /\ steps = 0
    /\ last = Step("init", 0, "")

\* the operators that can find nothing to operate on, and the export of a
\* scene that has meshes
NextCancel ==
    \/ /\ run.pc = "none"
       /\ AutoDetectCancel
    \/ /\ run.pc = "none"
       /\ ExportCancel
    \/ /\ run.pc = "none"
       /\ ExportBegin
    \/ ExportPartition
    \/ ExportFinish

SpecCancel == InitCancel /\ [][NextCancel]_vars

(* C23: an operation that finds nothing to operate on (bulk export of a scene
   without mesh objects, auto-detect on a disabled material) returns cancelled
   and leaves scene objects, settings records, shading graphs and the target
   directory exactly as they were. *)
CexC23 ==
    [][last'.path = "cancelled" =>
          /\ objects' = objects
          /\ settings' = settings
          /\ graph' = graph
          /\ files' = files
          /\ export_dir' = export_dir]_vars

(* ---------------------- settings writes while enabled ------------------- *)

\* the active material is enabled, then its texture, UV and scalar fields
\* are written; nothing else touches the graph
NextWrites ==
    \/ /\ ~settings[Active].enabled
       /\ Enable
    \/ FillWrite
    \/ FillEnd
    \/ EnableBuild
    \/ /\ settings[Active].enabled
       /\ \E c \in {"diffuse", "normal", "detail", "macro_overlay"}, img \in {NoImage, 1, 2} :
             UserSetTex(c, img)
    \/ /\ settings[Active].enabled
       /\ \E c \in {"diffuse", "detail", "macro_overlay"}, idx \in 0..1 : UserSetUv(c, idx)
    \/ /\ settings[Active].enabled
       /\ \E f \in DOMAIN ScalarInputs : \E v \in ScalarInputs[f] : UserSetScalar(f, v)

SpecWrites == Init /\ [][NextWrites]_vars

\* the graph of material m has the nodes and links a rebuild from the
\* current settings would make
AsRebuilt(m) ==
    LET want == BuildTree(settings[m], graph[m], Items)
    IN  /\ Range0(graph[m].nodes) = Range0(want.nodes)
        /\ graph[m].links = want.links

(* C24: for an enabled material, after any sequence of settings writes, the
   managed graph equals the graph a full rebuild from the current settings
   would produce: the same texture, UV-source and scalar bindings, and the
   detail (macro-overlay) branch present exactly when the detail
   (macro-overlay) texture is set. *)
CexC24 ==
    \A m \in Mats :
        (pc = "idle" /\ settings[m].enabled /\ last.op = "write" /\ last.mat = m) =>
            /\ AsRebuilt(m)
            /\ HasNode(graph[m].nodes, "BR_DetailTex") <=> (settings[m].tex["detail"] # NoImage)
            /\ HasNode(graph[m].nodes, "BR_MacroOverlayTex")
                   <=> (settings[m].tex["macro_overlay"] # NoImage)

(* -------------------- rebuild, then the periodic hook -------------------- *)

\* settings records of an enabled material, textures set or not per channel
RebuiltRecords ==
    {[DefaultSettings EXCEPT
         !.enabled = TRUE,
         !.tex = [c \in Channels |-> IF c \in DOMAIN t THEN t[c] ELSE NoImage]] :
        t \in [{"diffuse", "lightmap", "normal", "detail", "macro_overlay"}
                  -> {NoImage} \cup Images]}

\* material 1 is enabled and its graph has just been rebuilt from its record
InitRebuilt ==
    /\ \E s \in RebuiltRecords :
          /\ settings = [m \in Mats |-> IF m = 1 THEN s ELSE DefaultSettings]
          /\ graph = [m \in Mats |->
                         IF m = 1 THEN BuildTree(s, UseNodes(NoTree), UvChannelItems(SceneObjects))
                         ELSE NoTree]
    /\ objects = SceneObjects
    /\ files = {}
    /\ export_dir = TRUE
    /\ run = NoRun
    /\ call = NoCall
    /\ suppressed = {}
    /\ updating = FALSE
    /\ pc = "idle"
    /\ cur = 0
    /\ at = 0
    /\ todo = <<>>
    /\ found = <<>>
    /\ before = settings
    /\ depth = 0
    /\ refused = 0
    /\ blenrose_mat_index = 0
    /\ steps = 0
    /\ last = Step("enable_build", 1, "rebuild")

\* the graph-change event runs the periodic hook
NextRebuilt ==
    \/ HookEnter
    \/ HookRefuse
    \/ HookNext
    \/ HookWrite
    \/ HookExit

SpecRebuilt == InitRebuilt /\ [][NextRebuilt]_vars

(* C25: once the managed graph has been rebuilt from a settings record, the
   periodic hook's detection pass over that graph changes no field of the
   record: no channel receives the image of another channel's managed node. *)
CexC25 == [][settings' = settings]_vars

(* C26: every node that the rebuild creates carries the reserved name prefix
   BR_, so that the managed subgraph is exactly the set of BR_-named nodes and
   enabling then disabling a material leaves no node the Synchronizer created
   in its graph. A rebuild first removes every node, so the nodes of a graph
   just rebuilt are the nodes the rebuild created. *)
CexC26 ==
    /\ last.path = "rebuild" =>
          \A i \in DOMAIN graph[last.mat].nodes :
              IsManagedName(graph[last.mat].nodes[i].name)
    /\ (last.op = "disable" /\ last.path = "was_enabled") =>
          \A i \in DOMAIN graph[last.mat].nodes :
              graph[last.mat].nodes[i].name \notin RebuildPlainNames \ NodeNames(Authored.nodes)

(* C27: a material whose enabled flag is false has no node of the reserved
   namespace in its graph in any reachable state: a write to a texture, UV or
   scalar field of a disabled material creates and changes no managed node. *)
CexC27 ==
    \A m \in Mats :
        ~settings[m].enabled =>
            \A i \in DOMAIN graph[m].nodes : ~IsManagedName(graph[m].nodes[i].name)

(* ------------------- UV resolution, one call at a time ------------------- *)

\* depth > 8
TooDeepNever(d) == FALSE

TooDeep(d) == d > 8

\* node_ptr in visited_nodes
SeenNever(node, visited) == FALSE

Seen(node, visited) == node \in visited

ChainNames == <<"M1", "M2", "M3", "M4", "M5", "M6", "M7", "M8", "M9", "M10", "M11", "M12">>

\* what feeds the far end of the chain
ChainEnds ==
    {"open", "uvmap", "unnamed_uvmap", "texcoord_uv", "texcoord_generated", "attribute",
     "cycle", "self"}

EndNode(end) ==
    CASE end = "uvmap" -> [Node("End", "UVMAP", "") EXCEPT !.uv_map = "LM"]
      [] end = "unnamed_uvmap" -> Node("End", "UVMAP", "")
      [] end \in {"texcoord_uv", "texcoord_generated"} -> Node("End", "TEX_COORD", "")
      [] OTHER -> [Node("End", "ATTRIBUTE", "") EXCEPT !.attribute_name = "Lightmap"]

\* the image node "Img" with n Mapping nodes in a row upstream of its Vector
\* input, the last of them fed as `end` says
ChainGraph(n, end) ==
    LET last_name == IF n = 0 THEN "Img" ELSE ChainNames[n]
        from_name == CASE end = "cycle" -> IF n = 0 THEN "Img" ELSE ChainNames[1]
                       [] end = "self" -> last_name
                       [] OTHER -> "End"
        from_socket == CASE end \in {"uvmap", "unnamed_uvmap", "texcoord_uv"} -> "UV"
                         [] end = "texcoord_generated" -> "Generated"
                         [] end = "attribute" -> "Vector"
                         [] from_name = "Img" -> "Color"
                         [] OTHER -> "Vector"
    IN  [use_nodes |-> TRUE, has_tree |-> TRUE,
         nodes |-> <<[Node("Img", "TEX_IMAGE", "") EXCEPT !.image = 1]>>
                   \o [k \in 1..n |-> Node(ChainNames[k], "MAPPING", "")]
                   \o (IF end \in {"open", "cycle", "self"} THEN <<>> ELSE <<EndNode(end)>>),
         links |-> {Link(ChainNames[k], "Vector",
                         IF k = 1 THEN "Img" ELSE ChainNames[k - 1], "Vector") : k \in 1..n}
                   \cup (IF end = "open" THEN {}
                         ELSE {Link(from_name, from_socket, last_name, "Vector")})]

\* a Mix node whose Fac and Color1 inputs are fed by one Mapping node and
\* whose Color2 input is fed as `end` says
DiamondGraph(end) ==
    [use_nodes |-> TRUE, has_tree |-> TRUE,
     nodes |-> <<[Node("Img", "TEX_IMAGE", "") EXCEPT !.image = 1],
                 Node("Mix", "MIX_RGB", ""), Node("M1", "MAPPING", "")>>
               \o (IF end \in {"open", "cycle", "self"} THEN <<>> ELSE <<EndNode(end)>>),
     links |-> {Link("Mix", "Color", "Img", "Vector"),
                Link("M1", "Vector", "Mix", "Fac"),
                Link("M1", "Vector", "Mix", "Color1"),
                Link("Mix", "Color", "M1", "Vector")}
               \cup (CASE end = "open" -> {}
                       [] end \in {"cycle", "self"} -> {Link("Img", "Color", "Mix", "Color2")}
                       [] OTHER ->
                            {Link("End",
                                  IF end = "texcoord_generated" THEN "Generated"
                                  ELSE IF end = "attribute" THEN "Vector" ELSE "UV",
                                  "Mix", "Color2")})]

TracedGraphs ==
    {ChainGraph(n, end) : n \in 0..MaxChain, end \in ChainEnds}
    \cup {DiamondGraph(end) : end \in ChainEnds}

\* a frame is the loop over the input sockets of `node`, each of them traced
\* with depth `depth`; the bottom frame is the image node's Vector input
Frame(node, inputs, d) == [node |-> node, inputs |-> inputs, i |-> 1, depth |-> d]

\* _resolve_uv_map_for_image_node(nt, img_node, mat) is called
InitTrace ==
    /\ AtRest
    /\ \E g \in TracedGraphs, guess \in {"", "UVMap"} :
          call = [fn |-> "resolve_uv", g |-> g, guess |-> guess,
                  stack |-> <<Frame("Img", <<"Vector">>, 0)>>,
                  visited |-> {}, expanded |-> <<>>, res |-> "", done |-> FALSE,
                  result |-> ""]

Top == call.stack[Len(call.stack)]

\* the socket the running call traces
TopSocket == Top.inputs[Top.i]

\* the stack once the running call has returned None to the loop of its caller
Returned == [call.stack EXCEPT ![Len(call.stack)].i = @ + 1]

Into == {k \in call.g.links : k.to_node = Top.node /\ k.to_socket = TopSocket}

Tracing == call.fn = "resolve_uv" /\ ~call.done /\ call.stack # <<>> /\ Top.i <= Len(Top.inputs)

\* the link the call follows leads to a node it can expand
Expands ==
    /\ Tracing
    /\ ~TooDeep(Top.depth)
    /\ Into # {}
    /\ LET link == CHOOSE k \in Into : TRUE
       IN  ~Seen(link.from_node, call.visited) /\ HasNode(call.g.nodes, link.from_node)

\* the name a node yields when it ends the walk, "" when it does not
Resolved(from_node, link) ==
    IF from_node.type = "UVMAP" /\ from_node.uv_map # "" THEN from_node.uv_map
    ELSE IF from_node.type = "TEX_COORD" /\ link.from_socket = "UV" THEN call.guess
    ELSE IF from_node.type = "ATTRIBUTE" /\ from_node.attribute_name # ""
    THEN from_node.attribute_name
    ELSE ""

CallUnchanged ==
    UNCHANGED <<settings, graph, objects, files, export_dir, run, suppressed, updating, pc,
                cur, at, todo, found, before, depth, refused, blenrose_mat_index, steps,
                last>>

\* depth > 8, no link into the socket, or the link's node already visited:
\* the call returns None
TraceNone ==
    /\ Tracing
    /\ ~Expands
    /\ call' = [call EXCEPT !.stack = Returned]
    /\ CallUnchanged

\* the node is added to the visited set and ends the walk with a name
TraceFound ==
    /\ Expands
    /\ LET link == CHOOSE k \in Into : TRUE
           from_node == GetNode(call.g.nodes, link.from_node)
       IN  /\ Resolved(from_node, link) # ""
           /\ call' = [call EXCEPT
                          !.visited = @ \cup {link.from_node},
                          !.expanded = Append(@, [node |-> link.from_node, depth |-> Top.depth]),
                          !.res = Resolved(from_node, link),
                          !.result = Resolved(from_node, link),
                          !.done = TRUE]
    /\ CallUnchanged

\* the node is added to the visited set and its inputs are traced one deeper
TraceExpand ==
    /\ Expands
    /\ LET link == CHOOSE k \in Into : TRUE
           from_node == GetNode(call.g.nodes, link.from_node)
       IN  /\ Resolved(from_node, link) = ""
           /\ call' = [call EXCEPT
                          !.visited = @ \cup {link.from_node},
                          !.expanded = Append(@, [node |-> link.from_node, depth |-> Top.depth]),
                          !.stack = Append(call.stack,
                                           Frame(link.from_node, InputsOf(from_node.type),
                                                 Top.depth + 1))]
    /\ CallUnchanged

\* the loop over a node's inputs is over: None goes back to the caller
TraceReturn ==
    /\ call.fn = "resolve_uv" /\ ~call.done
    /\ Len(call.stack) > 1
    /\ Top.i > Len(Top.inputs)
    /\ call' = [call EXCEPT
                   !.stack = [SubSeq(call.stack, 1, Len(call.stack) - 1) EXCEPT
                                 ![Len(call.stack) - 1].i = @ + 1]]
    /\ CallUnchanged

\* the trace of the Vector input returned None: the material's guess is used
TraceFallback ==
    /\ call.fn = "resolve_uv" /\ ~call.done
    /\ Len(call.stack) = 1
    /\ Top.i > Len(Top.inputs)
    /\ call' = [call EXCEPT !.result = call.guess, !.done = TRUE]
    /\ CallUnchanged

NextTrace == TraceNone \/ TraceFound \/ TraceExpand \/ TraceReturn \/ TraceFallback

\* the call runs on: the interpreter does not stop in the middle of it
SpecTrace == InitTrace /\ [][NextTrace]_vars /\ WF_vars(NextTrace)

\* the nodes that feed an input of one of the nodes `to`
Feeders(g, to) == {k.from_node : k \in {k \in g.links : k.to_node \in to}}

RECURSIVE Within(_, _)
\* the nodes at most n links upstream of the image node's Vector input
Within(g, n) ==
    IF n = 0 THEN {}
    ELSE IF n = 1
    THEN {k.from_node : k \in {k \in g.links : k.to_node = "Img" /\ k.to_socket = "Vector"}}
    ELSE Within(g, n - 1) \cup Feeders(g, Within(g, n - 1))

\* what holds at every step of one resolution
TraceSafe ==
    call.fn = "resolve_uv" =>
        /\ \A i, j \in DOMAIN call.expanded :
              i # j => call.expanded[i].node # call.expanded[j].node
        /\ {call.expanded[i].node : i \in DOMAIN call.expanded} = call.visited
        /\ call.visited \subseteq Within(call.g, 9)
        /\ \A i \in DOMAIN call.expanded : call.expanded[i].depth <= 8
        /\ call.done =>
              /\ call.result =
                     ResolveUvMapForImageNode(call.g, call.guess, GetNode(call.g.nodes, "Img"))
              /\ call.res = "" => call.result = call.guess

(* C28: on any finite graph, cycles included, the resolution of the UV source
   of an image node terminates; during one resolution each node is expanded at
   most once, and no node deeper than depth 8 upstream of the image node's
   Vector input (depth 0 being the node that feeds the input, so none more
   than nine links away) is expanded; when no node ends the walk the result is
   the material's UV guess. *)
ThmC28 == ([]TraceSafe) /\ (<>(call.fn = "resolve_uv" /\ call.done))

\* a named UV Map node sits ten links upstream, behind nine Mapping nodes:
\* the ninth is expanded, the UV Map node is not, and the guess is returned
WitC28 ==
    /\ call.fn = "resolve_uv" /\ call.done
    /\ Len(call.g.nodes) = 11
    /\ HasNode(call.g.nodes, "End")
    /\ GetNode(call.g.nodes, "End").uv_map = "LM"
    /\ "M9" \in call.visited
    /\ "End" \notin call.visited
    /\ call.guess = "UVMap"
    /\ call.result = "UVMap"

\* the partitions, by position, whose material has BlenRose enabled
DocumentedPartitions ==
    {k \in DOMAIN run.groups :
        run.groups[k].key # NoMaterial /\ settings[run.groups[k].key].enabled}

(* C29: the material document of an export run has exactly one entry for each
   partition whose material has BlenRose enabled, holding that partition's
   assigned curves, and none for a partition of a disabled material or of no
   material, whether or not the partition's mesh export failed; the document
   is written at most once, only after every partition's export has been
   attempted, and a failed write changes neither the exported-object count
   nor the failed count. *)
ThmC29 ==
    /\ [](run.pc = "finished" =>
            /\ Len(run.exported_materials) = Cardinality(DocumentedPartitions)
            /\ \A k \in DocumentedPartitions :
                  \E e \in DOMAIN run.exported_materials :
                      /\ run.exported_materials[e].name = MaterialName[run.groups[k].key]
                      /\ run.exported_materials[e].data.splines = run.material_splines[k]
                      /\ \A f \in DOMAIN run.exported_materials :
                            run.exported_materials[f].name = run.exported_materials[e].name
                                => f = e
            /\ \A k \in DOMAIN run.groups \ DocumentedPartitions :
                  run.groups[k].key # NoMaterial =>
                      \A e \in DOMAIN run.exported_materials :
                          run.exported_materials[e].name # MaterialName[run.groups[k].key])
    /\ [](run.json # "none" => run.pc = "finished" /\ Len(run.attempted) = Len(run.groups))
    /\ [][/\ run.json # "none" => run'.json = run.json
          /\ run'.json # run.json =>
                /\ Len(run.attempted) = Len(run.groups)
                /\ run'.exported_objects = run.exported_objects
                /\ run'.failed = run.failed
                /\ run'.exported_materials = run.exported_materials]_vars

\* a finished run whose document write failed: the partition of an enabled
\* material, its export failed, has an entry with a curve; the partition of a
\* disabled material and the partition without a material have none
WitC29 ==
    /\ run.pc = "finished"
    /\ run.json = "failed"
    /\ \E k \in DocumentedPartitions :
          /\ run.raised[k]
          /\ \E e \in DOMAIN run.exported_materials :
                /\ run.exported_materials[e].name = MaterialName[run.groups[k].key]
                /\ Len(run.exported_materials[e].data.splines) >= 1
    /\ \E k \in DOMAIN run.groups \ DocumentedPartitions : run.groups[k].key # NoMaterial
    /\ Len(run.exported_materials) < Len(run.groups)

\* the places (partition, position) at which an object is listed
PlacesOf(obj) ==
    {pl \in (DOMAIN run.groups) \X (1..Len(objects)) :
        /\ pl[2] \in DOMAIN run.groups[pl[1]].objects
        /\ run.groups[pl[1]].objects[pl[2]] = obj}

\* the materials on the faces of an object
FaceMaterials(obj) == {obj.parts[i].material : i \in DOMAIN obj.parts} \ {NoMaterial}

(* C30: after partitioning, every visible mesh object of the scene (an
   original object with no or one material, or a piece made by splitting an
   object of several materials) belongs to exactly one partition, hidden mesh
   objects belong to none, and all objects of a partition carry that
   partition's single material, none for the partition without a material. *)
ThmC30 ==
    run.pc \in {"export", "finished"} =>
        /\ \A i \in DOMAIN objects :
              objects[i].type = "MESH" =>
                  Cardinality(PlacesOf(objects[i])) = (IF objects[i].visible THEN 1 ELSE 0)
        /\ \A k \in DOMAIN run.groups :
              /\ run.groups[k].objects # <<>>
              /\ \A j \in DOMAIN run.groups[k].objects :
                    LET obj == run.groups[k].objects[j]
                    IN  /\ \E i \in DOMAIN objects : objects[i] = obj
                        /\ obj.type = "MESH" /\ obj.visible
                        /\ FaceMaterials(obj) =
                               (IF run.groups[k].key = NoMaterial THEN {}
                                ELSE {run.groups[k].key})
        /\ \A j, k \in DOMAIN run.groups : run.groups[j].key = run.groups[k].key => j = k

\* the two-material cube has been split: its pieces are in two partitions,
\* the plane without a material is in the sentinel partition
WitC30 ==
    /\ run.pc = "export"
    /\ \E j, k \in DOMAIN run.groups :
          /\ j # k
          /\ \E a \in DOMAIN run.groups[j].objects, b \in DOMAIN run.groups[k].objects :
                /\ run.groups[j].objects[a].name = "Cube"
                /\ run.groups[k].objects[b].name = "Cube"
                /\ run.groups[j].objects[a].piece # run.groups[k].objects[b].piece
    /\ \E k \in DOMAIN run.groups :
          run.groups[k].key = NoMaterial /\ run.groups[k].objects[1].name = "Plane"

====
